---- MODULE Spec2Model ----
(***************************************************************************)
(* Model of the scheduled ingestion-and-derivation pipeline of             *)
(* api/wx/tasks.py: the StationDataFile job protocol of                    *)
(* process_station_data_files and the hourly / daily summary engine.       *)
(***************************************************************************)
EXTENDS Integers, Sequences, FiniteSets, TLC

(***************************************************************************)
(* Bounds of the model.                                                    *)
(***************************************************************************)
MaxJobs == 2
MaxReprograms == 1
MaxReadings == 2
MaxQcReadings == 3
MaxTicks == 2
MaxExportRows == 3

Workers == {"w1", "w2"}

(***************************************************************************)
(* Program constants.                                                      *)
(***************************************************************************)
BatchLimit == 60
ObservationMax == 1024

PENDING == 1
IN_PROGRESS == 2
DONE == 3
ERROR == 4
SKIPPED == 5
REPROGRAM == 6

NULL == "NULL"
Unbound == "unbound"

available_decoders == {"TOA5", "HOBO"}

\* Decoder names a StationFileIngestion profile may carry: one of the table,
\* one that is not in the table, and no decoder at all.
DecoderNames == {"TOA5", "BOGUS", NULL}
FileHashes == {"h1", "h2"}

\* process_station_data_files is called with force_reprocess left at its
\* default by ftp_ingest_station_files, its only caller in this file
ForceModes == {FALSE}

\* Lengths of the untruncated diagnostic text
\* 'Error Processing file with "{0}" decoder. '.format(..) + repr(err).
MessageLens == {60, 2000}

Hour == 3600
Day == 86400
MISSING_VALUE == -99999

StationIds == {1, 2}
\* utc_offset_minutes of station 2 (station 1 is at UTC)
BelizeOffset == -360
StationLists == {{1}, {1, 2}}

\* a nullable column holds None or <<value>>
None == <<>>

\* the readings the decoders store: a good sub-daily one, one accepted by
\* the manual flag whose consisted value overrides the measured one, a good
\* daily one, a missing one, one rejected by the manual flag and one whose
\* consisted value is the missing-value sentinel
ReadingKinds ==
    {[is_daily |-> FALSE, measured |-> 10, consisted |-> None,
      manual_flag |-> None, quality_flag |-> 1],
     [is_daily |-> FALSE, measured |-> 10, consisted |-> <<12>>,
      manual_flag |-> <<4>>, quality_flag |-> 3],
     [is_daily |-> TRUE, measured |-> 10, consisted |-> None,
      manual_flag |-> None, quality_flag |-> 4],
     [is_daily |-> FALSE, measured |-> MISSING_VALUE, consisted |-> None,
      manual_flag |-> None, quality_flag |-> 1],
     [is_daily |-> FALSE, measured |-> 12, consisted |-> None,
      manual_flag |-> <<3>>, quality_flag |-> 1],
     [is_daily |-> FALSE, measured |-> 10, consisted |-> <<MISSING_VALUE>>,
      manual_flag |-> None, quality_flag |-> 1]}

\* timestamps, in seconds; day 1 starts at Day
HourlyReadingTimes == {Day, Day + Hour, Day + Hour + 1800, Day + 2 * Hour}
HourlyStarts == {Day - Hour, Day + Hour, Day + Hour + 1800}
HourlyWindows == {Hour, 2 * Hour}

\* midday of day 1, and midnight of day 2 at UTC and at station 2
DailyReadingTimes == {Day + 12 * Hour, 2 * Day, 2 * Day + 6 * Hour}
DailyStarts == {1, 2}
DailyEnds == {1, 2, 3}

\* 01:00 and midday of day 1, midnight of day 2; now() of the last24h runs
AggregateReadingTimes == {Day + Hour, Day + 12 * Hour, 2 * Day}
Last24hNows == {2 * Day, 2 * Day + 12 * Hour}

\* the scheduler is looked at every 20 minutes from 00:40:00 of day 2 on
ClockStep == 20 * 60
StartClock == 2 * Day + 2400

\* max(3, ...) and the hours of a device that was never executed
MinQueryWindow == 3
NoExecutionHours == 999999
\* values of settings.LRGS_MAX_INTERVAL
MaxIntervals == {2, 24}

DcpIds == {1, 2}
\* device 1 transmits at hh:10:00 for 10 minutes and was never executed;
\* device 2 transmits at hh:30:00, has a window of 01:05:00 and was last
\* executed 5 or 30 hours before the start
DcpRows ==
    {d \in [DcpIds -> [last_datetime : {None, <<StartClock - 5 * Hour>>,
                                                <<StartClock - 30 * Hour>>},
                        first_transmission_time : {[hour |-> 1, minute |-> 10, second |-> 0],
                                                   [hour |-> 5, minute |-> 30, second |-> 0]},
                        transmission_window : {[hour |-> 0, minute |-> 10, second |-> 0],
                                               [hour |-> 1, minute |-> 5, second |-> 0]}]] :
        /\ d[1].last_datetime = None
        /\ d[1].first_transmission_time.hour = 1
        /\ d[1].transmission_window.hour = 0
        /\ d[2].last_datetime # None
        /\ d[2].first_transmission_time.hour = 5
        /\ d[2].transmission_window.hour = 1}

\* quality control flags
QC_NEUTRAL == 1
QC_SUSPICIOUS == 2
QC_GOOD == 4

\* thresholds a wx_stationvariable row may carry
TestStepValues == {None, <<5>>}
TestPersistenceVariances == {None, <<10>>}
\* station 1 has no row or a row with any thresholds; station 2 has no row
StationVarRows ==
    {None} \cup {<<[test_step_value |-> a, test_persistence_variance |-> b]>> :
                    a \in TestStepValues, b \in TestPersistenceVariances}

\* readings of the quality control runs: midnight and midday of day 1 and
\* midnight of day 2, 24 hours after the first; as stored, not yet tested
QcTimes == {Day, Day + 12 * Hour, 2 * Day}
QcReadings ==
    {[station_id |-> st, variable_id |-> 5, datetime |-> t, measured |-> m,
      quality_flag |-> 1,
      qc_step_quality_flag |-> QC_NEUTRAL, qc_step_description |-> None,
      qc_persist_quality_flag |-> QC_NEUTRAL, qc_persist_description |-> None] :
        st \in StationIds, t \in QcTimes, m \in {10, 20}}

VARIABLES
    sdf,          \* table StationDataFile: sequence indexed by id
    run,          \* per worker: the frame of process_station_data_files
    decoded,      \* history: per job, passed to a decoder by a run without force_reprocess
    reprograms,   \* history: number of reprocess requests so far
    seen,         \* history: per worker, sibling statuses read by its pending dedup query
    event,        \* history: the step just taken, when it is a step of a run
    raw_data,     \* table raw_data
    hourly_summary,
    daily_summary,
    last24h_summary,
    stations,     \* table Station: id -> utc_offset_minutes
    last_call,    \* history: the last summary call and how it ended
    raw_qc,       \* table raw_data: the columns the quality control tests use
    station_var,  \* table wx_stationvariable: station id -> no row, or its thresholds
    qc_call,      \* history: the last step on the quality control tables
    dcp,          \* table NoaaDcp: id -> row
    clock,        \* datetime.now(), in seconds
    sched,        \* per worker: the frame of dcp_tasks_scheduler
    cs_file,      \* the search criteria file at LRGS_CS_FILE_PATH
    claimed,      \* history: the (device, next_execution) found eligible so far
    dcp_event,    \* history: the scheduler step just taken
    entl,         \* the frame of get_entl_data
    forwarded,    \* history: the frames passed to save_flash_data.delay
    entl_event,   \* history: the step of get_entl_data just taken
    export_table, \* the rows of the table export_data reads, for one station
    datafile,     \* the DataFile row of the export: ready, lines
    export_call,  \* history: the last call of export_data
    ftp,          \* the frame of ftp_ingest_station_files
    remote,       \* the files on the ftp servers: server -> folder -> names
    enqueued,     \* history: the StationDataFile rows the run inserted
    ftp_event,    \* history: the step of ftp_ingest_station_files just taken
    ml_flag,      \* raw_data.ml_flag of the target readings: (station, datetime) -> flag
    predict,      \* the frame of predict_preciptation_data
    predict_event, \* history: the step of predict_preciptation_data just taken
    unprocessed,  \* per task table: the number of distinct windows with started_at NULL
    summary_run,  \* the frame of the running process_*_summary_tasks
    task_event,   \* history: the step of process_*_summary_tasks just taken
    minutely,     \* the frame of dcp_tasks_scheduler run once a minute over one device
    documents,    \* table Document: sequence indexed by id of kind of file, upload batch, processed
    doc_run,      \* the frame of process_document: pc, document_list, i
    task_rows,    \* table HourlySummaryTask: sequence indexed by id
    task_run,     \* the frame of process_hourly_summary_tasks over the task rows
    lrgs_cs_file,  \* the file at LRGS_CS_FILE_PATH, shared by every dispatch
    retrieve      \* per worker: the frame of retrieve_dpc_messages

jobVars == <<sdf, run, decoded, reprograms, seen, event>>
sumVars == <<raw_data, hourly_summary, daily_summary, last24h_summary, stations,
            last_call>>
qcVars == <<raw_qc, station_var, qc_call>>
vars == <<sdf, run, decoded, reprograms, seen, event,
          raw_data, hourly_summary, daily_summary, last24h_summary, stations,
          last_call, raw_qc, station_var, qc_call,
          dcp, clock, sched, cs_file, claimed, dcp_event,
          entl, forwarded, entl_event,
          export_table, datafile, export_call,
          ftp, remote, enqueued, ftp_event,
          ml_flag, predict, predict_event,
          unprocessed, summary_run, task_event,
          minutely,
          documents, doc_run,
          task_rows, task_run,
          lrgs_cs_file, retrieve>>
dcpVars == <<dcp, clock, sched, cs_file, claimed, dcp_event>>
entlVars == <<entl, forwarded, entl_event>>
exportVars == <<export_table, datafile, export_call>>
ftpVars == <<ftp, remote, enqueued, ftp_event>>
predictVars == <<ml_flag, predict, predict_event>>
taskVars == <<unprocessed, summary_run, task_event>>
minuteVars == <<minutely>>
docVars == <<documents, doc_run>>
rowVars == <<task_rows, task_run>>
csVars == <<lrgs_cs_file, retrieve>>

\* what the steps of one part of the program leave alone
notJobVars == <<sumVars, qcVars, dcpVars, entlVars, exportVars, ftpVars, predictVars, taskVars, minuteVars, docVars, rowVars, csVars>>
notSumVars == <<jobVars, qcVars, dcpVars, entlVars, exportVars, ftpVars, predictVars, taskVars, minuteVars, docVars, rowVars, csVars>>
notQcVars == <<jobVars, sumVars, dcpVars, entlVars, exportVars, ftpVars, predictVars, taskVars, minuteVars, docVars, rowVars, csVars>>
notDcpVars == <<jobVars, sumVars, qcVars, entlVars, exportVars, ftpVars, predictVars, taskVars, minuteVars, docVars, rowVars, csVars>>
notEntlVars == <<jobVars, sumVars, qcVars, dcpVars, exportVars, ftpVars, predictVars, taskVars, minuteVars, docVars, rowVars, csVars>>
notExportVars == <<jobVars, sumVars, qcVars, dcpVars, entlVars, ftpVars, predictVars, taskVars, minuteVars, docVars, rowVars, csVars>>
notFtpVars == <<jobVars, sumVars, qcVars, dcpVars, entlVars, exportVars, predictVars, taskVars, minuteVars, docVars, rowVars, csVars>>
notPredictVars == <<jobVars, sumVars, qcVars, dcpVars, entlVars, exportVars, ftpVars, taskVars, minuteVars, docVars, rowVars, csVars>>
notTaskVars == <<jobVars, sumVars, qcVars, dcpVars, entlVars, exportVars, ftpVars, predictVars, minuteVars, docVars, rowVars, csVars>>
notMinuteVars == <<jobVars, sumVars, qcVars, dcpVars, entlVars, exportVars, ftpVars, predictVars, taskVars, docVars, rowVars, csVars>>
notDocVars == <<jobVars, sumVars, qcVars, dcpVars, entlVars, exportVars, ftpVars, predictVars, taskVars, minuteVars, rowVars, csVars>>
notRowVars == <<jobVars, sumVars, qcVars, dcpVars, entlVars, exportVars, ftpVars, predictVars, taskVars, minuteVars, docVars, csVars>>
notCsVars == <<jobVars, sumVars, qcVars, dcpVars, entlVars, exportVars, ftpVars, predictVars, taskVars, minuteVars, docVars, rowVars>>

Min(a, b) == IF a <= b THEN a ELSE b

(***************************************************************************)
(* process_station_data_files                                              *)
(***************************************************************************)
JobIds == 1..Len(sdf)

RECURSIVE OrderById(_)
OrderById(S) ==
    IF S = {} THEN <<>>
    ELSE LET m == CHOOSE x \in S : \A y \in S : x <= y
         IN <<m>> \o OrderById(S \ {m})

Take(s, n) == SubSeq(s, 1, Min(n, Len(s)))

\* status_id__in=(1, 6)
ClaimableStatus == {PENDING, REPROGRAM}

\* StationDataFile.objects.filter(status_id__in=(1, 6),
\*     is_historical_data=historical_data).order_by('id')[:60]
\* evaluated once, by the first for loop; each element is an in-memory
\* model instance (id, status_id, observation).
station_data_file_list(historical_data) ==
    LET ids == {j \in JobIds : /\ sdf[j].status_id \in ClaimableStatus
                               /\ sdf[j].is_historical_data = historical_data}
        ordered == Take(OrderById(ids), BatchLimit)
    IN [k \in 1..Len(ordered) |->
            [id |-> ordered[k],
             status_id |-> sdf[ordered[k]].status_id,
             observation |-> sdf[ordered[k]].observation]]

\* exclude(status_id__in=(4, 5))
NotProcessedStatus == {ERROR, SKIPPED}

\* a deduplication query that takes only DONE siblings as processed
file_already_processed_OnlyDone(j) ==
    \E i \in JobIds : /\ sdf[i].file_hash = sdf[j].file_hash
                      /\ i # j
                      /\ sdf[i].status_id = DONE

\* StationDataFile.objects.filter(file_hash=...).exclude(id=...)
\*     .exclude(status_id__in=(4, 5)).exists()
file_already_processed(j) ==
    \E i \in JobIds : /\ sdf[i].file_hash = sdf[j].file_hash
                      /\ i # j
                      /\ sdf[i].status_id \notin NotProcessedStatus

\* the diagnostic text stored without the slice
Truncate_NoSlice(n) == n

\* [:1024]
Truncate(n) == Min(n, ObservationMax)

\* station_data_file.save(): the row takes every field of the instance
save(tbl, obj) ==
    [tbl EXCEPT ![obj.id].status_id = obj.status_id,
                ![obj.id].observation = obj.observation]

IdleRun == [pc |-> "idle", historical_data |-> FALSE, force_reprocess |-> FALSE,
            list |-> <<>>, i |-> 0, current_decoder |-> Unbound,
            file_already_processed |-> FALSE]

\* the head of one iteration of the second for loop
IterationPc(force) == IF force THEN "decode" ELSE "check"

\* position after the iteration on item i of the second loop
Advance(r) ==
    IF r.i + 1 > Len(r.list)
    THEN [r EXCEPT !.pc = "done", !.i = r.i + 1]
    ELSE [r EXCEPT !.pc = IterationPc(r.force_reprocess), !.i = r.i + 1]

Current(w) == run[w].list[run[w].i]

NoEvent == [op |-> "none", w |-> NULL, j |-> 0]

InitJobs ==
    /\ sdf = <<>>
    /\ run = [w \in Workers |-> IdleRun]
    /\ decoded = <<>>
    /\ reprograms = 0
    /\ seen = [w \in Workers |-> {}]
    /\ event = NoEvent

\* file hashes are opaque: a new file either repeats a hash already stored
\* or brings the next unused one
UsedHashes == {sdf[j].file_hash : j \in JobIds}
NextHashes == UsedHashes \cup (IF "h1" \notin UsedHashes THEN {"h1"} ELSE {"h2"})

\* ftp_ingest_station_files: a downloaded file becomes a StationDataFile
\* with status_id=1
Enqueue(h, hist, dec) ==
    /\ Len(sdf) < MaxJobs
    /\ h \in NextHashes
    /\ sdf' = Append(sdf, [status_id |-> PENDING, file_hash |-> h,
                           is_historical_data |-> hist, decoder |-> dec,
                           observation |-> 0])
    /\ decoded' = Append(decoded, FALSE)
    /\ event' = NoEvent
    /\ UNCHANGED <<run, reprograms, seen>>
    /\ UNCHANGED notJobVars

\* explicit reprocess request on a settled job
Reprogram(j) ==
    /\ j \in JobIds
    /\ sdf[j].status_id \in {DONE, ERROR, SKIPPED}
    /\ reprograms < MaxReprograms
    /\ sdf' = [sdf EXCEPT ![j].status_id = REPROGRAM]
    /\ reprograms' = reprograms + 1
    /\ event' = [op |-> "reprogram", w |-> NULL, j |-> j]
    /\ UNCHANGED <<run, decoded, seen>>
    /\ UNCHANGED notJobVars

\* entry of process_station_data_files up to the evaluation of the queryset
StartRun(w, hist, force) ==
    /\ run[w].pc = "idle"
    /\ LET l == station_data_file_list(hist)
       IN run' = [run EXCEPT ![w] =
                     [IdleRun EXCEPT !.pc = IF Len(l) = 0 THEN "done" ELSE "mark",
                                     !.historical_data = hist,
                                     !.force_reprocess = force,
                                     !.list = l,
                                     !.i = 1]]
    /\ event' = [op |-> "select", w |-> w, j |-> 0]
    /\ UNCHANGED <<sdf, decoded, reprograms, seen>>
    /\ UNCHANGED notJobVars

\* first loop: status_id = 2; save()
Mark(w) ==
    /\ run[w].pc = "mark"
    /\ LET r == run[w]
           obj == [Current(w) EXCEPT !.status_id = IN_PROGRESS]
           l == [r.list EXCEPT ![r.i] = obj]
       IN /\ sdf' = save(sdf, obj)
          /\ run' = [run EXCEPT ![w] =
                        IF r.i = Len(r.list)
                        THEN [r EXCEPT !.list = l, !.i = 1,
                                       !.pc = IterationPc(r.force_reprocess)]
                        ELSE [r EXCEPT !.list = l, !.i = r.i + 1]]
    /\ event' = NoEvent
    /\ UNCHANGED <<decoded, reprograms, seen>>
    /\ UNCHANGED notJobVars

\* the statuses of the other rows with the file_hash of row j
SiblingStatuses(j) ==
    {sdf[i].status_id : i \in {x \in JobIds : x # j /\ sdf[x].file_hash = sdf[j].file_hash}}

\* second loop, not force_reprocess: the deduplication query
Check(w) ==
    /\ run[w].pc = "check"
    /\ LET j == Current(w).id
           fap == file_already_processed(j)
       IN /\ run' = [run EXCEPT ![w].file_already_processed = fap,
                                ![w].pc = IF fap THEN "skip" ELSE "decode"]
          /\ seen' = [seen EXCEPT ![w] = SiblingStatuses(j)]
    /\ event' = NoEvent
    /\ UNCHANGED <<sdf, decoded, reprograms>>
    /\ UNCHANGED notJobVars

\* status_id = 5; save(); continue
Skip(w) ==
    /\ run[w].pc = "skip"
    /\ LET r == run[w]
           obj == [Current(w) EXCEPT !.status_id = SKIPPED]
       IN /\ sdf' = save(sdf, obj)
          /\ run' = [run EXCEPT ![w] = Advance([r EXCEPT !.list[r.i] = obj])]
    /\ seen' = [seen EXCEPT ![w] = {}]
    /\ event' = NoEvent
    /\ UNCHANGED <<decoded, reprograms>>
    /\ UNCHANGED notJobVars

\* available_decoders[station_data_file.decoder.name] succeeds
LookupOk(w) == sdf[Current(w).id].decoder \in available_decoders

\* the decoder is called on row j
DecoderCalled(w, j) ==
    decoded' = [decoded EXCEPT ![j] = @ \/ ~run[w].force_reprocess]

\* the body of the except clause once current_decoder is bound
SettleError(w, dec, len) ==
    LET r == run[w]
        obj == [Current(w) EXCEPT !.status_id = ERROR,
                                  !.observation = Truncate(len)]
    IN /\ sdf' = save(sdf, obj)
       /\ run' = [run EXCEPT ![w] =
                     Advance([r EXCEPT !.list[r.i] = obj, !.current_decoder = dec])]

\* the decoder returns: else branch, status_id = 3; save()
DecodeOk(w) ==
    /\ run[w].pc = "decode"
    /\ LookupOk(w)
    /\ LET r == run[w]
           j == Current(w).id
           obj == [Current(w) EXCEPT !.status_id = DONE]
       IN /\ DecoderCalled(w, j)
          /\ sdf' = save(sdf, obj)
          /\ run' = [run EXCEPT ![w] =
                        Advance([r EXCEPT !.list[r.i] = obj,
                                          !.current_decoder = sdf[j].decoder])]
          /\ event' = [op |-> "returned", w |-> w, j |-> j, seen |-> seen[w]]
    /\ seen' = [seen EXCEPT ![w] = {}]
    /\ UNCHANGED reprograms
    /\ UNCHANGED notJobVars

\* the decoder raises: except branch
DecodeRaise(w, len) ==
    /\ run[w].pc = "decode"
    /\ LookupOk(w)
    /\ LET j == Current(w).id
       IN /\ DecoderCalled(w, j)
          /\ SettleError(w, sdf[j].decoder, len)
          /\ event' = [op |-> "raised", w |-> w, j |-> j, seen |-> seen[w]]
    /\ seen' = [seen EXCEPT ![w] = {}]
    /\ UNCHANGED reprograms
    /\ UNCHANGED notJobVars

\* the lookup raises (KeyError, or AttributeError on a null decoder) and the
\* except clause formats current_decoder, bound by an earlier iteration
LookupFailBound(w, len) ==
    /\ run[w].pc = "decode"
    /\ ~LookupOk(w)
    /\ run[w].current_decoder # Unbound
    /\ SettleError(w, run[w].current_decoder, len)
    /\ event' = [op |-> "lookup failed", w |-> w, j |-> Current(w).id]
    /\ seen' = [seen EXCEPT ![w] = {}]
    /\ UNCHANGED <<decoded, reprograms>>
    /\ UNCHANGED notJobVars

\* the lookup raises and current_decoder was never bound in this call: the
\* except clause itself raises UnboundLocalError, which leaves the function
LookupFailUnbound(w) ==
    /\ run[w].pc = "decode"
    /\ ~LookupOk(w)
    /\ run[w].current_decoder = Unbound
    /\ run' = [run EXCEPT ![w].pc = "aborted"]
    /\ event' = [op |-> "lookup failed", w |-> w, j |-> Current(w).id]
    /\ seen' = [seen EXCEPT ![w] = {}]
    /\ UNCHANGED <<sdf, decoded, reprograms>>
    /\ UNCHANGED notJobVars

\* the call has returned or raised; the worker is free again
Finish(w) ==
    /\ run[w].pc \in {"done", "aborted"}
    /\ run' = [run EXCEPT ![w] = IdleRun]
    /\ event' = NoEvent
    /\ UNCHANGED <<sdf, decoded, reprograms, seen>>
    /\ UNCHANGED notJobVars

NextJobsOf(W) ==
    \/ \E h \in FileHashes, hist \in BOOLEAN, dec \in DecoderNames :
           Enqueue(h, hist, dec)
    \/ \E j \in JobIds : Reprogram(j)
    \/ \E w \in W, hist \in BOOLEAN, force \in ForceModes : StartRun(w, hist, force)
    \/ \E w \in W : Mark(w)
    \/ \E w \in W : Check(w)
    \/ \E w \in W : Skip(w)
    \/ \E w \in W : DecodeOk(w)
    \/ \E w \in W, len \in MessageLens : DecodeRaise(w, len)
    \/ \E w \in W, len \in MessageLens : LookupFailBound(w, len)
    \/ \E w \in W : LookupFailUnbound(w)
    \/ \E w \in W : Finish(w)

(***************************************************************************)
(* Summary aggregation: raw_data and the summary tables                    *)
(***************************************************************************)
\* AT TIME ZONE / date_trunc arithmetic on timestamps counted in seconds
date_trunc_hour(t) == (t \div Hour) * Hour
DateOf(t) == t \div Day

\* rd.datetime = rd.datetime::date
IsMidnight(t) == t = DateOf(t) * Day

\* CASE WHEN rd.consisted IS NOT NULL THEN rd.consisted ELSE rd.measured END
calc_value(rd) == IF rd.consisted # None THEN rd.consisted[1] ELSE rd.measured

\* rd.manual_flag in (1,4) OR (rd.manual_flag IS NULL AND rd.quality_flag in (1,4))
AcceptedFlags == {1, 4}
Accepted(rd) ==
    \/ rd.manual_flag # None /\ rd.manual_flag[1] \in AcceptedFlags
    \/ rd.manual_flag = None /\ rd.quality_flag \in AcceptedFlags

RECURSIVE SumValues(_)
SumValues(S) ==
    IF S = {} THEN 0
    ELSE LET rd == CHOOSE x \in S : TRUE
         IN calc_value(rd) + SumValues(S \ {rd})

\* avg(calc.value): the exact quotient sum / count, kept as the fraction
Avg(sum, n) == [num |-> sum, den |-> n]

\* min, max, avg, sum, count of one GROUP BY group
Aggregates(S) ==
    LET vals == {calc_value(rd) : rd \in S}
    IN [min_value |-> CHOOSE v \in vals : \A u \in vals : v <= u,
        max_value |-> CHOOSE v \in vals : \A u \in vals : v >= u,
        avg_value |-> Avg(SumValues(S), Cardinality(S)),
        sum_value |-> SumValues(S),
        num_records |-> Cardinality(S)]

\* one row of hourly_summary / daily_summary; period is the datetime or the
\* day; readings is history: the rows of raw_data of the GROUP BY group
SummaryRow(period, station_id, variable_id, S) ==
    [period |-> period, station_id |-> station_id, variable_id |-> variable_id,
     agg |-> Aggregates(S), readings |-> S]

Key(row) == <<row.period, row.station_id, row.variable_id>>

\* the unique key (period, station, variable) of a summary table: the rows
\* an INSERT brings must not repeat a key, among themselves or with the table
UniqueViolation(kept, first, second) ==
    \/ \E a \in first, b \in second : Key(a) = Key(b)
    \/ \E a \in first \cup second, b \in kept : Key(a) = Key(b)

\* a bucket rule that takes every reading on an hour boundary to the hour before
HourBucket_EveryHour(t) ==
    IF t = date_trunc_hour(t) THEN date_trunc_hour(t - 1) ELSE date_trunc_hour(t)

\* hour bucket of a sub-daily reading:
\* CASE WHEN rd.datetime = rd.datetime::date
\*      THEN date_trunc('hour', rd.datetime - '1 second'::interval)
\*      ELSE date_trunc('hour', rd.datetime) END
HourBucket(t) ==
    IF IsMidnight(t) THEN date_trunc_hour(t - 1) ELSE date_trunc_hour(t)

\* WHERE clause of the inner SELECT of calculate_hourly_summary
HourlySelected(is_daily, start_datetime, end_datetime, station_ids) ==
    {rd \in raw_data : /\ rd.datetime >= start_datetime
                       /\ rd.datetime <= end_datetime
                       /\ Accepted(rd)
                       /\ rd.is_daily = is_daily
                       /\ calc_value(rd) # MISSING_VALUE
                       /\ rd.station_id \in station_ids}

\* one branch of the UNION ALL of calculate_hourly_summary
HourlyBranch(is_daily, start_datetime, end_datetime, station_ids) ==
    LET sel == HourlySelected(is_daily, start_datetime, end_datetime, station_ids)
        bucket(rd) == IF is_daily THEN date_trunc_hour(rd.datetime)
                      ELSE HourBucket(rd.datetime)
        group(rd) == {x \in sel : /\ bucket(x) = bucket(rd)
                                  /\ x.station_id = rd.station_id
                                  /\ x.variable_id = rd.variable_id}
        values == {SummaryRow(bucket(rd), rd.station_id, rd.variable_id, group(rd)) :
                       rd \in sel}
    IN {v \in values : v.period = start_datetime}

\* a delete that compares the hour with < instead of =
HourlyDeleted_Before(tbl, start_datetime, station_ids) ==
    {row \in tbl : row.station_id \in station_ids /\ row.period < start_datetime}

\* DELETE FROM hourly_summary WHERE station_id in .. AND datetime = start_datetime
HourlyDeleted(tbl, start_datetime, station_ids) ==
    {row \in tbl : row.station_id \in station_ids /\ row.period = start_datetime}

\* calculate_hourly_summary: the table it leaves and whether it returned
\* normally; the delete and the insert are one transaction
calculate_hourly_summary(tbl, start_datetime, end_datetime, station_ids) ==
    IF start_datetime > end_datetime THEN [tbl |-> tbl, ok |-> TRUE]
    ELSE LET kept == tbl \ HourlyDeleted(tbl, start_datetime, station_ids)
             first == HourlyBranch(FALSE, start_datetime, end_datetime, station_ids)
             second == HourlyBranch(TRUE, start_datetime, end_datetime, station_ids)
         IN IF UniqueViolation(kept, first, second)
            THEN [tbl |-> tbl, ok |-> FALSE]
            ELSE [tbl |-> kept \cup first \cup second, ok |-> TRUE]

NoCall == [op |-> "none", start |-> 0, end |-> 0, station_ids |-> {},
           ok |-> TRUE, repeat |-> FALSE]

InitSummary ==
    /\ raw_data = {}
    /\ hourly_summary = {}
    /\ daily_summary = {}
    /\ last24h_summary = {}
    /\ stations = [id \in StationIds |-> IF id = 1 THEN 0 ELSE BelizeOffset]
    /\ last_call = NoCall

\* a decoder stores one reading; (station, variable, datetime) is unique
InsertRaw(rd) ==
    /\ Cardinality(raw_data) < MaxReadings
    /\ \A x \in raw_data : ~(/\ x.station_id = rd.station_id
                             /\ x.variable_id = rd.variable_id
                             /\ x.datetime = rd.datetime)
    /\ raw_data' = raw_data \cup {rd}
    /\ last_call' = NoCall
    /\ UNCHANGED <<hourly_summary, daily_summary, last24h_summary, stations>>
    /\ UNCHANGED notSumVars

\* history: the summary call just made; repeat says that the call before it,
\* with no reading stored in between, had the same parameters
Called(op, start, end, station_ids, ok) ==
    LET this == [op |-> op, start |-> start, end |-> end, station_ids |-> station_ids]
    IN [op |-> op, start |-> start, end |-> end, station_ids |-> station_ids,
        ok |-> ok,
        repeat |-> /\ last_call.op = op
                   /\ this = [op |-> last_call.op, start |-> last_call.start,
                              end |-> last_call.end,
                              station_ids |-> last_call.station_ids]]

Readings(times) ==
    {[station_id |-> s, variable_id |-> 5, datetime |-> t, is_daily |-> p.is_daily,
      measured |-> p.measured, consisted |-> p.consisted,
      manual_flag |-> p.manual_flag, quality_flag |-> p.quality_flag] :
        s \in StationIds, t \in times, p \in ReadingKinds}

\* the readings of the hourly runs: every kind for station 1; station 2 is
\* there for the station filter and stores plain good sub-daily readings
HourlyReadings ==
    {rd \in Readings(HourlyReadingTimes) :
        \/ rd.station_id = 1
        \/ ~rd.is_daily /\ rd.consisted = None /\ rd.manual_flag = None
              /\ rd.measured # MISSING_VALUE}

CalculateHourlySummary(start_datetime, end_datetime, station_ids) ==
    LET res == calculate_hourly_summary(hourly_summary, start_datetime,
                                        end_datetime, station_ids)
    IN /\ hourly_summary' = res.tbl
       /\ last_call' = Called("hourly", start_datetime, end_datetime,
                               station_ids, res.ok)
       /\ UNCHANGED <<raw_data, daily_summary, last24h_summary, stations>>
       /\ UNCHANGED notSumVars

\* the UTC instant of local midnight of a date at a fixed offset:
\* datetime(y, m, d, tzinfo=fixed_offset).astimezone(pytz.UTC)
LocalMidnight(date, offset) == date * Day - offset * 60

\* cast((rd.datetime + interval 'offset minutes') at time zone 'utc' ... as DATE)
DailyDate(rd, offset) ==
    IF rd.is_daily THEN DateOf(rd.datetime + offset * 60)
    ELSE DateOf(rd.datetime + offset * 60 - 1)

\* WHERE clause of one branch of the INSERT of calculate_daily_summary
DailySelected(is_daily, datetime_start, datetime_end, station_ids) ==
    {rd \in raw_data : /\ rd.datetime > datetime_start
                       /\ rd.datetime <= datetime_end
                       /\ calc_value(rd) # MISSING_VALUE
                       /\ rd.station_id \in station_ids
                       /\ Accepted(rd)
                       /\ rd.is_daily = is_daily}

\* one branch of the UNION ALL of calculate_daily_summary
DailyBranch(is_daily, start_date, end_date, offset, station_ids) ==
    LET sel == DailySelected(is_daily, LocalMidnight(start_date, offset),
                             LocalMidnight(end_date, offset), station_ids)
        group(rd) == {x \in sel : /\ DailyDate(x, offset) = DailyDate(rd, offset)
                                  /\ x.station_id = rd.station_id
                                  /\ x.variable_id = rd.variable_id}
    IN {SummaryRow(DailyDate(rd, offset), rd.station_id, rd.variable_id, group(rd)) :
            rd \in sel}

\* DELETE FROM daily_summary WHERE station_id in .. AND day >= .. AND day < ..
DailyDeleted(tbl, start_date, end_date, station_ids) ==
    {row \in tbl : /\ row.station_id \in station_ids
                   /\ row.period >= start_date
                   /\ row.period < end_date}

\* the orders in which list(set(..)) may yield the offsets
Orders(S) ==
    {o \in [1..Cardinality(S) -> S] : \A a, b \in 1..Cardinality(S) : o[a] = o[b] => a = b}

\* the loop over the offsets from position k on; each offset is one
\* committed transaction, and an error leaves the loop
RECURSIVE DailyLoop(_, _, _, _, _, _)
DailyLoop(tbl, order, k, start_date, end_date, ids) ==
    IF k > Len(order) THEN [tbl |-> tbl, ok |-> TRUE]
    ELSE LET offset == order[k]
             station_ids == {st \in ids : stations[st] = offset}
             kept == tbl \ DailyDeleted(tbl, start_date, end_date, station_ids)
             first == DailyBranch(FALSE, start_date, end_date, offset, station_ids)
             second == DailyBranch(TRUE, start_date, end_date, offset, station_ids)
         IN IF UniqueViolation(kept, first, second)
            THEN [tbl |-> tbl, ok |-> FALSE]
            ELSE DailyLoop(kept \cup first \cup second, order, k + 1,
                           start_date, end_date, ids)

\* calculate_daily_summary for the stations ids, taking the offsets in order
calculate_daily_summary(tbl, start_date, end_date, ids, order) ==
    IF start_date > end_date THEN [tbl |-> tbl, ok |-> TRUE]
    ELSE DailyLoop(tbl, order, 1, start_date, end_date, ids)

Offsets(ids) == {stations[st] : st \in ids}

CalculateDailySummary(start_date, end_date, ids, order) ==
    LET res == calculate_daily_summary(daily_summary, start_date, end_date, ids, order)
    IN /\ daily_summary' = res.tbl
       /\ last_call' = Called("daily", start_date, end_date, ids, res.ok)
       /\ UNCHANGED <<raw_data, hourly_summary, last24h_summary, stations>>
       /\ UNCHANGED notSumVars

\* (rd.consisted IS NOT NULL OR quality_flag in (1, 4))
Last24hAccepted(rd) == rd.consisted # None \/ rd.quality_flag \in AcceptedFlags

\* WHERE datetime > (now() - interval '1 day') AND datetime <= now() ...
\* AND is_daily = false, common to the two CTEs
Last24hWindow(now) ==
    {rd \in raw_data : /\ rd.datetime > now - Day
                       /\ rd.datetime <= now
                       /\ Last24hAccepted(rd)
                       /\ ~rd.is_daily}

\* CTE last: AND measured != MISSING_VALUE
Last24hLatestSelected(now) ==
    {rd \in Last24hWindow(now) : rd.measured # MISSING_VALUE}

\* a selection of CTE agg that tests the measured column, as CTE last does
Last24hAggSelected_Measured(now) ==
    {rd \in Last24hWindow(now) : rd.measured # MISSING_VALUE}

\* CTE agg: AND calc.value != MISSING_VALUE
Last24hAggSelected(now) ==
    {rd \in Last24hWindow(now) : calc_value(rd) # MISSING_VALUE}

\* DELETE FROM last24h_summary; INSERT ... FROM agg JOIN last
calculate_last24h_summary(now) ==
    LET sel == Last24hAggSelected(now)
        lastsel == Last24hLatestSelected(now)
        group(S, rd) == {x \in S : /\ x.station_id = rd.station_id
                                   /\ x.variable_id = rd.variable_id}
        latest(rd) == CHOOSE x \in group(lastsel, rd) :
                          \A y \in group(lastsel, rd) : y.datetime <= x.datetime
    IN {[period |-> now, station_id |-> rd.station_id, variable_id |-> rd.variable_id,
         agg |-> Aggregates(group(sel, rd)), readings |-> group(sel, rd),
         latest_value |-> calc_value(latest(rd))] :
            rd \in {x \in sel : group(lastsel, x) # {}}}

CalculateLast24hSummary(now) ==
    /\ last24h_summary' = calculate_last24h_summary(now)
    /\ last_call' = Called("last24h", now, now, {}, TRUE)
    /\ UNCHANGED <<raw_data, hourly_summary, daily_summary, stations>>
    /\ UNCHANGED notSumVars

\* the readings of the runs of the three summaries together: station 1
AggregateReadings ==
    {rd \in Readings(AggregateReadingTimes) : rd.station_id = 1}

NextAggregates ==
    \/ \E rd \in AggregateReadings : InsertRaw(rd)
    \/ CalculateHourlySummary(Day + Hour, Day + 2 * Hour, {1})
    \/ \E order \in Orders(Offsets({1})) : CalculateDailySummary(1, 2, {1}, order)
    \/ \E now \in Last24hNows : CalculateLast24hSummary(now)

(***************************************************************************)
(* Quality control: calculate_step_qc_test and calculate_persist_qc_test   *)
(***************************************************************************)
SamePair(x, rd) == x.station_id = rd.station_id /\ x.variable_id = rd.variable_id

\* the threshold column of the wx_stationvariable row joined to rd, or None
Threshold(rd, column) ==
    IF station_var[rd.station_id] = None THEN None
    ELSE station_var[rd.station_id][1][column]

\* LAG(value.measured, 1) OVER (PARTITION BY station_id, variable_id
\*     ORDER BY ..., datetime): the rows before rd of its pair, latest first
Lag(tbl, rd) ==
    LET before == {x \in tbl : SamePair(x, rd) /\ x.datetime < rd.datetime}
    IN {x \in before : \A y \in before : y.datetime <= x.datetime}

\* COALESCE(ABS(value.measured - LAG(value.measured, 1) OVER (...)), 0)
step_result(tbl, rd) ==
    IF Lag(tbl, rd) = {} THEN 0
    ELSE LET d == rd.measured - (CHOOSE x \in Lag(tbl, rd) : TRUE).measured
         IN IF d < 0 THEN 0 - d ELSE d

\* IF rec.step_result > rec.test_step_value
StepExceeds(tbl, rd) == step_result(tbl, rd) > Threshold(rd, "test_step_value")[1]

\* the branch SET ..., quality_flag = false: quality_flag is the integer
\* column the summaries compare with (1, 4), so the statement raises
StepHardFail(tbl, rd) ==
    /\ Threshold(rd, "test_step_value") # None
    /\ StepExceeds(tbl, rd)
    /\ rd.qc_persist_quality_flag = QC_SUSPICIOUS

\* what the block leaves of row rd when no statement raises
StepRow(tbl, rd) ==
    IF Threshold(rd, "test_step_value") = None
    THEN [rd EXCEPT !.qc_step_quality_flag = QC_NEUTRAL,
                    !.qc_step_description = None]
    ELSE IF StepExceeds(tbl, rd)
         THEN [rd EXCEPT !.qc_step_quality_flag = QC_SUSPICIOUS,
                         !.qc_step_description = <<"bigger">>]
         ELSE [rd EXCEPT !.qc_step_quality_flag = QC_GOOD,
                         !.qc_step_description = <<"smaller">>]

\* a step test that never consults qc_persist_quality_flag
calculate_step_qc_test_NoPersist(tbl) ==
    [tbl |-> {StepRow(tbl, rd) : rd \in tbl}, ok |-> TRUE]

\* the DO block of calculate_step_qc_test, one transaction
calculate_step_qc_test(tbl) ==
    IF \E rd \in tbl : StepHardFail(tbl, rd)
    THEN [tbl |-> tbl, ok |-> FALSE]
    ELSE [tbl |-> {StepRow(tbl, rd) : rd \in tbl}, ok |-> TRUE]

RECURSIVE SumMeasured(_)
SumMeasured(S) ==
    IF S = {} THEN 0
    ELSE LET x == CHOOSE y \in S : TRUE IN x.measured + SumMeasured(S \ {x})

RECURSIVE SumSquares(_)
SumSquares(S) ==
    IF S = {} THEN 0
    ELSE LET x == CHOOSE y \in S : TRUE
         IN x.measured * x.measured + SumSquares(S \ {x})

\* the rows the variance of rec is computed over:
\* past24hvalue.datetime < value.datetime
\*     and past24hvalue.datetime >= value.datetime - INTERVAL '1 day'
Past24h(tbl, rd) ==
    {x \in tbl : /\ SamePair(x, rd)
                  /\ x.datetime < rd.datetime
                  /\ x.datetime >= rd.datetime - Day}

\* COALESCE(VARIANCE(measured), 0) > v, VARIANCE being the sample variance
\* (n * sum(x^2) - sum(x)^2) / (n * (n - 1)), null for fewer than two rows
VarianceExceeds(S, v) ==
    LET n == Cardinality(S)
    IN IF n < 2 THEN 0 > v
       ELSE n * SumSquares(S) - SumMeasured(S) * SumMeasured(S) > v * n * (n - 1)

\* the rows the UPDATE of the first branch reaches:
\* rec.datetime > past24hvalue.datetime
\*     AND past24hvalue.datetime > rec.datetime - INTERVAL '1 day'
PersistFlagged(x, rec) ==
    /\ SamePair(x, rec)
    /\ rec.datetime > x.datetime
    /\ x.datetime > rec.datetime - Day

\* one iteration of the loop, for the row rec of the query
PersistStep(tbl, rec) ==
    IF VarianceExceeds(Past24h(tbl, rec), Threshold(rec, "test_persistence_variance")[1])
    THEN {IF PersistFlagged(x, rec)
          THEN [x EXCEPT !.qc_persist_quality_flag = QC_SUSPICIOUS,
                         !.qc_persist_description = <<"bigger">>]
          ELSE x : x \in tbl}
    ELSE {IF SamePair(x, rec) /\ x.datetime = rec.datetime
          THEN [x EXCEPT !.qc_persist_quality_flag = QC_GOOD,
                         !.qc_persist_description = <<"smaller">>]
          ELSE x : x \in tbl}

\* ORDER BY value.station_id, value.variable_id, value.datetime
RowBefore(a, b) ==
    \/ a.station_id < b.station_id
    \/ a.station_id = b.station_id /\ a.datetime < b.datetime

\* the FOR loop over the rows todo of the query, in its order
RECURSIVE PersistLoop(_, _)
PersistLoop(tbl, todo) ==
    IF todo = {} THEN tbl
    ELSE LET rec == CHOOSE a \in todo : \A b \in todo \ {a} : RowBefore(a, b)
         IN PersistLoop(PersistStep(tbl, rec), todo \ {rec})

\* the DO block of calculate_persist_qc_test: the loop, then the two resets
calculate_persist_qc_test(tbl) ==
    LET todo == {rd \in tbl : Threshold(rd, "test_persistence_variance") # None}
        looped == PersistLoop(tbl, todo)
    IN {IF Threshold(x, "test_persistence_variance") = None
        THEN [x EXCEPT !.qc_persist_quality_flag = QC_NEUTRAL,
                       !.qc_persist_description = None]
        ELSE x : x \in looped}

\* a decoder stores one reading; (station, variable, datetime) is unique
InsertQc(rd) ==
    /\ Cardinality(raw_qc) < MaxQcReadings
    /\ \A x \in raw_qc : ~(SamePair(x, rd) /\ x.datetime = rd.datetime)
    /\ raw_qc' = raw_qc \cup {rd}
    /\ qc_call' = [op |-> "insert", ok |-> TRUE]
    /\ UNCHANGED station_var
    /\ UNCHANGED notQcVars

\* the thresholds of station 1 are set, changed or removed
SetStationVariable(row) ==
    /\ row # station_var[1]
    /\ station_var' = [station_var EXCEPT ![1] = row]
    /\ qc_call' = [op |-> "config", ok |-> TRUE]
    /\ UNCHANGED raw_qc
    /\ UNCHANGED notQcVars

CalculateStepQcTest ==
    LET res == calculate_step_qc_test(raw_qc)
    IN /\ raw_qc' = res.tbl
       /\ qc_call' = [op |-> "step", ok |-> res.ok]
       /\ UNCHANGED station_var
       /\ UNCHANGED notQcVars

CalculatePersistQcTest ==
    /\ raw_qc' = calculate_persist_qc_test(raw_qc)
    /\ qc_call' = [op |-> "persist", ok |-> TRUE]
    /\ UNCHANGED station_var
    /\ UNCHANGED notQcVars

\* the integer the boolean false becomes where the column takes the assignment
FalseAsInteger == 0

\* the DO block of calculate_step_qc_test on a store whose quality_flag column
\* takes the assignment quality_flag = false: the hard-fail branch writes it
calculate_step_qc_test_accepting(tbl) ==
    {IF StepHardFail(tbl, rd)
     THEN [rd EXCEPT !.qc_step_quality_flag = QC_SUSPICIOUS,
                     !.quality_flag = FalseAsInteger,
                     !.qc_step_description = <<"bigger">>]
     ELSE StepRow(tbl, rd) : rd \in tbl}

CalculateStepQcTestAccepting ==
    /\ raw_qc' = calculate_step_qc_test_accepting(raw_qc)
    /\ qc_call' = [op |-> "step", ok |-> TRUE]
    /\ UNCHANGED station_var
    /\ UNCHANGED notQcVars

\* the quality control runs where the hard-fail assignment is accepted
NextQcAccepting ==
    \/ \E rd \in QcReadings : InsertQc(rd)
    \/ \E row \in StationVarRows : SetStationVariable(row)
    \/ CalculateStepQcTestAccepting
    \/ CalculatePersistQcTest

NextQc ==
    \/ \E rd \in QcReadings : InsertQc(rd)
    \/ \E row \in StationVarRows : SetStationVariable(row)
    \/ CalculateStepQcTest
    \/ CalculatePersistQcTest

(***************************************************************************)
(* dcp_tasks_scheduler and retrieve_dpc_messages                           *)
(***************************************************************************)
IdleScheduler == [pc |-> "idle", list |-> <<>>, i |-> 0, noaa_list_to_process |-> <<>>]

\* now.hour of a datetime
HourOf(t) == (t % Day) \div Hour

\* datetime(year=now.year, month=now.month, day=now.day, hour=..., minute=...,
\*          second=...), with the hour the claim of the specification names
scheduled_execution_FirstHour(now, noaaDcp) ==
    DateOf(now) * Day + noaaDcp.first_transmission_time.hour * Hour
        + noaaDcp.first_transmission_time.minute * 60
        + noaaDcp.first_transmission_time.second

\* datetime(year=now.year, month=now.month, day=now.day, hour=now.hour,
\*          minute=first_transmission_time.minute,
\*          second=first_transmission_time.second)
scheduled_execution(now, noaaDcp) ==
    DateOf(now) * Day + HourOf(now) * Hour
        + noaaDcp.first_transmission_time.minute * 60
        + noaaDcp.first_transmission_time.second

\* timedelta(minutes=transmission_window.minute, seconds=transmission_window.second)
transmission_window_timedelta(noaaDcp) ==
    noaaDcp.transmission_window.minute * 60 + noaaDcp.transmission_window.second

next_execution(now, noaaDcp) ==
    IF noaaDcp.last_datetime = None THEN now
    ELSE scheduled_execution(now, noaaDcp) + transmission_window_timedelta(noaaDcp)

\* an eligibility test that takes last_datetime = next_execution as not yet run
Eligible_NotAfter(now, noaaDcp) ==
    /\ next_execution(now, noaaDcp) <= now
    /\ \/ noaaDcp.last_datetime = None
       \/ noaaDcp.last_datetime[1] <= next_execution(now, noaaDcp)

\* next_execution <= now and (last_datetime is None or last_datetime < next_execution)
Eligible(now, noaaDcp) ==
    /\ next_execution(now, noaaDcp) <= now
    /\ \/ noaaDcp.last_datetime = None
       \/ noaaDcp.last_datetime[1] < next_execution(now, noaaDcp)

\* a first-execution value of 0 hours
latest_received_dpc_data_in_hours_Zero(now, last_execution) ==
    IF last_execution = None THEN 0
    ELSE (now - last_execution[1]) \div Hour

\* int((now - last_execution).total_seconds() / 3600); TypeError on None
latest_received_dpc_data_in_hours(now, last_execution) ==
    IF last_execution = None THEN NoExecutionHours
    ELSE (now - last_execution[1]) \div Hour

\* max(3, min(latest_received_dpc_data_in_hours(last_execution),
\*            int(settings.LRGS_MAX_INTERVAL)))
dcp_query_window(now, last_execution, max_interval) ==
    LET hours == latest_received_dpc_data_in_hours(now, last_execution)
        capped == IF hours <= max_interval THEN hours ELSE max_interval
    IN IF MinQueryWindow >= capped THEN MinQueryWindow ELSE capped

\* time passes
Tick ==
    /\ clock < StartClock + MaxTicks * ClockStep
    /\ clock' = clock + ClockStep
    /\ dcp_event' = [op |-> "tick"]
    /\ UNCHANGED <<dcp, sched, cs_file, claimed>>
    /\ UNCHANGED notDcpVars

\* for noaaDcp in NoaaDcp.objects.all(): the queryset is evaluated when the
\* loop starts; each element is an in-memory model instance
SchedulerStart(w) ==
    /\ sched[w].pc = "idle"
    /\ sched' = [sched EXCEPT ![w] =
                    [pc |-> "check",
                     list |-> [k \in 1..Cardinality(DcpIds) |-> [id |-> k] @@ dcp[k]],
                     i |-> 1, noaa_list_to_process |-> <<>>]]
    /\ dcp_event' = [op |-> "start", w |-> w]
    /\ UNCHANGED <<dcp, clock, cs_file, claimed>>
    /\ UNCHANGED notDcpVars

\* one iteration of the first loop: the test, and for an eligible device
\* the append, last_datetime = now and save(); next_execution and repeat in
\* the appended entry are history (was this window already found eligible)
SchedulerCheck(w) ==
    /\ sched[w].pc = "check"
    /\ LET r == sched[w]
           noaaDcp == r.list[r.i]
           now == clock
           next == next_execution(now, noaaDcp)
           eligible == Eligible(now, noaaDcp)
           advanced == [r EXCEPT !.i = r.i + 1,
                                 !.pc = IF r.i = Len(r.list) THEN "dispatch" ELSE "check"]
       IN /\ IF eligible
             THEN /\ sched' = [sched EXCEPT ![w] =
                                  [advanced EXCEPT
                                      !.noaa_list_to_process =
                                          Append(@, [id |-> noaaDcp.id,
                                                     last_execution |-> noaaDcp.last_datetime,
                                                     next_execution |-> next,
                                                     repeat |-> <<noaaDcp.id, next>> \in claimed]),
                                      !.list[r.i].last_datetime = <<now>>]]
                  /\ dcp' = [dcp EXCEPT ![noaaDcp.id] =
                                 [last_datetime |-> <<now>>,
                                  first_transmission_time |-> noaaDcp.first_transmission_time,
                                  transmission_window |-> noaaDcp.transmission_window]]
                  /\ claimed' = claimed \cup {<<noaaDcp.id, next>>}
             ELSE /\ sched' = [sched EXCEPT ![w] = advanced]
                  /\ UNCHANGED <<dcp, claimed>>
          /\ dcp_event' = [op |-> "check", w |-> w, id |-> noaaDcp.id, now |-> now,
                           last_datetime |-> noaaDcp.last_datetime,
                           first_transmission_time |-> noaaDcp.first_transmission_time,
                           transmission_window |-> noaaDcp.transmission_window,
                           next_execution |-> next, eligible |-> eligible,
                           repeat |-> <<noaaDcp.id, next>> \in claimed]
    /\ UNCHANGED <<clock, cs_file>>
    /\ UNCHANGED notDcpVars

RelatedStationCounts == {0, 1, 2}

\* a test of the station count that only turns down a device without station
related_stations_error_ZeroOnly(related_stations_count) ==
    IF related_stations_count = 0 THEN <<"is not related to any Station.">>
    ELSE None

\* the exception retrieve_dpc_messages raises on the number of related
\* stations, or None
related_stations_error(related_stations_count) ==
    IF related_stations_count = 0 THEN <<"is not related to any Station.">>
    ELSE IF related_stations_count # 1 THEN <<"is related to more than one Station.">>
    ELSE None

\* one iteration of the second loop: retrieve_dpc_messages, which raises
\* before set_search_criteria and subprocess.Popen unless the device has
\* exactly one station; the scheduler logs the exception and goes on
SchedulerRetrieve(w, related_stations_count, max_interval) ==
    /\ sched[w].pc = "dispatch"
    /\ sched[w].noaa_list_to_process # <<>>
    /\ LET noaa_dict == Head(sched[w].noaa_list_to_process)
           hours == dcp_query_window(clock, noaa_dict.last_execution, max_interval)
           error == related_stations_error(related_stations_count)
       IN /\ cs_file' = IF error = None
                         THEN <<[dcp_address |-> noaa_dict.id, drs_since |-> hours]>>
                         ELSE cs_file
          /\ dcp_event' = [op |-> "retrieve", w |-> w, id |-> noaa_dict.id, now |-> clock,
                           last_execution |-> noaa_dict.last_execution,
                           next_execution |-> noaa_dict.next_execution,
                           repeat |-> noaa_dict.repeat,
                           max_interval |-> max_interval,
                           related_stations_count |-> related_stations_count,
                           error |-> error, written |-> error = None,
                           spawned |-> error = None]
    /\ sched' = [sched EXCEPT ![w].noaa_list_to_process = Tail(@)]
    /\ UNCHANGED <<dcp, clock, claimed>>
    /\ UNCHANGED notDcpVars

SchedulerFinish(w) ==
    /\ sched[w].pc = "dispatch"
    /\ sched[w].noaa_list_to_process = <<>>
    /\ sched' = [sched EXCEPT ![w] = IdleScheduler]
    /\ dcp_event' = [op |-> "finish", w |-> w]
    /\ UNCHANGED <<dcp, clock, cs_file, claimed>>
    /\ UNCHANGED notDcpVars

NextDcpOf(W) ==
    \/ Tick
    \/ \E w \in W : SchedulerStart(w)
    \/ \E w \in W : SchedulerCheck(w)
    \/ \E w \in W, related_stations_count \in RelatedStationCounts,
             max_interval \in MaxIntervals :
           SchedulerRetrieve(w, related_stations_count, max_interval)
    \/ \E w \in W : SchedulerFinish(w)

NextDcp == NextDcpOf(Workers)
NextDcpSeq == NextDcpOf({"w1"})

(***************************************************************************)
(* get_entl_data and process_received_data                                 *)
(***************************************************************************)
\* sleep(3) of the exception handler and sleep(15) at the end of the loop body
ErrorSleep == 3
ReconnectSleep == 15

\* the bounding box of process_received_data, in units of 1e-7 degree
Scale == 10000000
LatitudeRange == [lo |-> 15 * Scale, hi |-> 19 * Scale]
LongitudeRange == [lo |-> -90 * Scale, hi |-> -87 * Scale]

\* ord('9')
Ord9 == 57

\* data[1] of a frame: the byte of '9', the byte of '2', and the byte 9
TypeBytes == {Ord9, 50, 9}
\* the frames received: data[1], data[10:14] and data[14:18].  Latitudes
\* 17.0, 15.0 and 20.0 degrees, longitudes -88.0, -87.0 and -80.0 degrees
Frames ==
    {[type |-> Ord9, latitude |-> <<10, 33, 254, 128>>, longitude |-> <<203, 140, 68, 0>>],
     [type |-> Ord9, latitude |-> <<11, 235, 194, 0>>, longitude |-> <<203, 140, 68, 0>>],
     [type |-> 9, latitude |-> <<11, 235, 194, 0>>, longitude |-> <<208, 80, 248, 0>>],
     [type |-> 50, latitude |-> <<10, 33, 254, 128>>, longitude |-> <<203, 140, 68, 0>>],
     [type |-> 50, latitude |-> <<8, 240, 209, 128>>, longitude |-> <<204, 36, 218, 128>>],
     [type |-> 50, latitude |-> <<11, 235, 194, 0>>, longitude |-> <<203, 140, 68, 0>>],
     [type |-> 50, latitude |-> <<10, 33, 254, 128>>, longitude |-> <<208, 80, 248, 0>>]}

\* int.from_bytes(b, byteorder='big', signed=True) of four bytes
from_bytes(b) ==
    LET high == IF b[1] >= 128 THEN b[1] - 256 ELSE b[1]
    IN ((high * 256 + b[2]) * 256 + b[3]) * 256 + b[4]

\* data[1] == '9': data is a bytes object, so data[1] is an int, and an int
\* is never equal to a str
IsKeepAlive(data) == FALSE

\* 15 <= latitude <= 19 and -90 <= longitude <= -87
InBox(data) ==
    /\ LatitudeRange.lo <= from_bytes(data.latitude)
    /\ from_bytes(data.latitude) <= LatitudeRange.hi
    /\ LongitudeRange.lo <= from_bytes(data.longitude)
    /\ from_bytes(data.longitude) <= LongitudeRange.hi

\* the exceptions the steps of a connection raise: a failed connect or send
\* and a broken recv (OSError), a recv timeout (socket.timeout), data[1] of a
\* one-byte frame (IndexError)
Exceptions == {"OSError", "socket.timeout", "IndexError"}

\* a handler for OSError only
Caught_OSError(exc) == exc \in {"OSError", "socket.timeout"}

\* except Exception
Caught(exc) == exc \in Exceptions

\* an exception inside the try block: the handler sleeps 3 seconds, and an
\* exception it does not catch ends the task
Raise(exc, cause) ==
    entl' = IF Caught(exc)
            THEN [pc |-> "sleep3", ended_by |-> cause, slept |-> 0]
            ELSE [pc |-> "terminated", ended_by |-> cause, slept |-> 0]

\* entl_socket.connect(...)
EntlConnect(ok) ==
    /\ entl.pc = "connect"
    /\ entl_event' = [op |-> "connect", ok |-> ok, ended_by |-> entl.ended_by,
                      delay |-> entl.slept]
    /\ IF ok THEN entl' = [entl EXCEPT !.pc = "auth"]
             ELSE Raise("OSError", "connect_failed")
    /\ UNCHANGED forwarded
    /\ UNCHANGED notEntlVars

\* entl_socket.send(auth_string...)
EntlAuth(ok) ==
    /\ entl.pc = "auth"
    /\ entl_event' = [op |-> "auth", ok |-> ok]
    /\ IF ok THEN entl' = [entl EXCEPT !.pc = "recv"]
             ELSE Raise("OSError", "io_error")
    /\ UNCHANGED forwarded
    /\ UNCHANGED notEntlVars

\* one iteration of process_received_data on a frame
EntlFrame(data) ==
    /\ entl.pc = "recv"
    /\ LET keep_alive == IsKeepAlive(data)
           forward == ~keep_alive /\ InBox(data)
       IN /\ forwarded' = IF forward THEN forwarded \cup {data} ELSE forwarded
          /\ entl_event' = [op |-> "frame", data |-> data, keep_alive |-> keep_alive,
                            decoded |-> ~keep_alive, forward |-> forward]
    /\ UNCHANGED entl
    /\ UNCHANGED notEntlVars

\* recv returns b'': process_received_data returns and the with block ends
EntlClosed ==
    /\ entl.pc = "recv"
    /\ entl' = [pc |-> "sleep15", ended_by |-> "clean_close", slept |-> 0]
    /\ entl_event' = [op |-> "closed"]
    /\ UNCHANGED forwarded
    /\ UNCHANGED notEntlVars

\* recv raises, or returns a single byte so that data[1] raises
EntlRecvFails(exc) ==
    /\ entl.pc = "recv"
    /\ Raise(exc, IF exc = "IndexError" THEN "decoding_error"
                   ELSE IF exc = "socket.timeout" THEN "timeout" ELSE "io_error")
    /\ entl_event' = [op |-> "recv_failed", exc |-> exc]
    /\ UNCHANGED forwarded
    /\ UNCHANGED notEntlVars

\* sleep(3) in the handler; the with block ends after it
EntlSleep3 ==
    /\ entl.pc = "sleep3"
    /\ entl' = [entl EXCEPT !.pc = "sleep15", !.slept = @ + ErrorSleep]
    /\ entl_event' = [op |-> "sleep", seconds |-> ErrorSleep]
    /\ UNCHANGED forwarded
    /\ UNCHANGED notEntlVars

\* sleep(15) at the end of the loop body, on every path
EntlSleep15 ==
    /\ entl.pc = "sleep15"
    /\ entl' = [entl EXCEPT !.pc = "connect", !.slept = @ + ReconnectSleep]
    /\ entl_event' = [op |-> "sleep", seconds |-> ReconnectSleep]
    /\ UNCHANGED forwarded
    /\ UNCHANGED notEntlVars

NextEntl ==
    \/ \E ok \in BOOLEAN : EntlConnect(ok)
    \/ \E ok \in BOOLEAN : EntlAuth(ok)
    \/ \E data \in Frames : EntlFrame(data)
    \/ EntlClosed
    \/ \E exc \in Exceptions : EntlRecvFails(exc)
    \/ EntlSleep3
    \/ EntlSleep15

(***************************************************************************)
(* export_data                                                             *)
(***************************************************************************)
ExportVariables == {1, 2}
\* timestamps of stored rows: the start, a time between two slots, a
\* midnight, and the latest end
ExportTimes == {Day, Day + 6 * Hour + 1800, 2 * Day, 3 * Day + 6 * Hour}
\* variable 1 has a row at each of them, variable 2 at the midnight
ExportRows ==
    {[datetime |-> t, variable_id |-> 1] : t \in ExportTimes}
        \cup {[datetime |-> 2 * Day, variable_id |-> 2]}
ExportSources == {"raw_data", "hourly_summary"}
ExportStarts == {Day, Day + 6 * Hour}
\* an empty range, less than a day, one day, and two days and a quarter
ExportEnds == {Day, Day + 12 * Hour, 2 * Day, 3 * Day + 6 * Hour}
\* current_datafile.interval_in_seconds
ExportInterval == 6 * Hour
\* where a call fails: nowhere, at the lookups before the try block, at a
\* query, at the writing of the file, at the final save; a pivot fails by
\* itself on duplicate rows
ExportFailures == {"none", "lookup", "query", "write", "save"}

\* the loop of lines 888-893: datetime_list without its last element
RECURSIVE datetime_steps(_, _)
datetime_steps(current_datetime, converted_end_date) ==
    IF current_datetime < converted_end_date /\ current_datetime + Day < converted_end_date
    THEN <<current_datetime>> \o datetime_steps(current_datetime + Day, converted_end_date)
    ELSE <<current_datetime>>

datetime_list(converted_start_date, converted_end_date) ==
    Append(datetime_steps(converted_start_date, converted_end_date), converted_end_date)

\* generate_series(start, end - INTERVAL '1 seconds', INTERVAL 'n seconds')
generate_series(start_datetime, stop, step) ==
    {start_datetime + k * step : k \in {j \in 0..((3 * Day) \div step) :
                                          start_datetime + j * step <= stop}}

\* a chunk query that takes the end of the chunk in
chunk_query_Closed(source, tbl, start_datetime, end_datetime) ==
    IF source = "raw_data"
    THEN {[datetime |-> g, variable_id |-> v,
           value |-> [datetime |-> g, variable_id |-> v] \in tbl] :
             g \in generate_series(start_datetime, end_datetime, ExportInterval),
             v \in ExportVariables}
    ELSE {[datetime |-> r.datetime, variable_id |-> r.variable_id, value |-> TRUE] :
             r \in {x \in tbl : x.datetime >= start_datetime /\ x.datetime <= end_datetime}}

\* the rows one chunk query fetches; value tells a stored row from a slot of
\* the series without one
chunk_query(source, tbl, start_datetime, end_datetime) ==
    IF source = "raw_data"
    THEN {[datetime |-> g, variable_id |-> v,
           value |-> [datetime |-> g, variable_id |-> v] \in tbl] :
             g \in generate_series(start_datetime, end_datetime - 1, ExportInterval),
             v \in ExportVariables}
    ELSE {[datetime |-> r.datetime, variable_id |-> r.variable_id, value |-> TRUE] :
             r \in {x \in tbl : x.datetime >= start_datetime /\ x.datetime < end_datetime}}

\* the result of every chunk query, in order
chunk_results(source, tbl, dates) ==
    [i \in 1..(Len(dates) - 1) |-> chunk_query(source, tbl, dates[i], dates[i + 1])]

\* len(query_result) after query_result = query_result + cursor.fetchall()
RECURSIVE accumulated(_, _)
accumulated(results, n) ==
    IF n = 0 THEN 0 ELSE accumulated(results, n - 1) + Cardinality(results[n])

\* pivot(index=0, columns=1) raises on two rows with the same datetime and
\* variable; otherwise len(df.index) is the number of datetimes fetched
pivot_fails(results) ==
    accumulated(results, Len(results))
        # Cardinality(UNION {results[i] : i \in 1..Len(results)})

pivot_lines(results) ==
    Cardinality({r.datetime : r \in UNION {results[i] : i \in 1..Len(results)}})

insert_export_row(r) ==
    /\ Cardinality(export_table) < MaxExportRows
    /\ r \notin export_table
    /\ export_table' = export_table \cup {r}
    /\ export_call' = [op |-> "insert"]
    /\ UNCHANGED datafile
    /\ UNCHANGED notExportVars

\* one call of export_data for the DataFile; fail names the step that raises
export_data(source, start_date, end_date, fail) ==
    LET dates == datetime_list(start_date, end_date)
        results == chunk_results(source, export_table, dates)
        failure == IF fail = "none" /\ pivot_fails(results) THEN "pivot" ELSE fail
        lines == IF failure = "none" THEN pivot_lines(results) ELSE 0
    IN /\ datafile' = IF failure = "lookup" THEN datafile
                      ELSE [ready |-> failure = "none", lines |-> <<lines>>]
       /\ export_call' = [op |-> "export", source |-> source, start_date |-> start_date,
                          end_date |-> end_date, datetime_list |-> dates,
                          results |-> results,
                          rows |-> accumulated(results, Len(results)),
                          pivoted |-> pivot_lines(results), failure |-> failure]
       /\ UNCHANGED export_table
       /\ UNCHANGED notExportVars

NextExport ==
    \/ \E r \in ExportRows : insert_export_row(r)
    \/ \E source \in ExportSources, start_date \in ExportStarts, end_date \in ExportEnds,
          fail \in ExportFailures : export_data(source, start_date, end_date, fail)

(***************************************************************************)
(* ftp_ingest_station_files                                                *)
(***************************************************************************)
\* the triggered StationFileIngestion profiles: two on server s1, one on s2
station_file_ingestions ==
    <<[id |-> 1, ftp_server |-> "s1", remote_folder |-> "/a", delete_from_server |-> TRUE],
      [id |-> 2, ftp_server |-> "s1", remote_folder |-> "/b", delete_from_server |-> FALSE],
      [id |-> 3, ftp_server |-> "s2", remote_folder |-> "/c", delete_from_server |-> TRUE]>>

FtpServers == {"s1", "s2"}
\* ftp.pwd() after login
home_folder == "/"
\* what the servers hold; the file pattern of every profile matches all of it
RemoteFiles ==
    [srv \in FtpServers |->
        IF srv = "s1"
        THEN [dir \in {"/", "/a", "/b", "/c"} |->
                 IF dir = "/" THEN {"h"} ELSE IF dir = "/a" THEN {"f1", "f2"}
                 ELSE IF dir = "/b" THEN {"f3"} ELSE {}]
        ELSE [dir \in {"/", "/a", "/b", "/c"} |-> IF dir = "/c" THEN {"f4"} ELSE {}]]

\* ftplib.error_perm and ftplib.error_reply derive from ftplib.Error, which
\* is not an OSError
FtpErrors == {"error_perm", "error_reply"}

RECURSIVE SeqOfSet(_)
SeqOfSet(S) ==
    IF S = {} THEN <<>> ELSE LET x == CHOOSE y \in S : TRUE IN <<x>> \o SeqOfSet(S \ {x})

\* [s for s in station_file_ingestions if s.ftp_server == ftp_server]
ProfilesOf(ftp_server) ==
    SelectSeq(station_file_ingestions, LAMBDA sfi : sfi.ftp_server = ftp_server)

\* an exception no handler of the function catches
FtpAbort(op, outcome, id) ==
    /\ ftp' = [ftp EXCEPT !.pc = "aborted"]
    /\ ftp_event' = [op |-> op, outcome |-> outcome, sfi |-> id]

\* the function starts; list(set(...)) gives the servers in some order
FtpStart(order) ==
    /\ ftp.pc = "idle"
    /\ ftp' = [ftp EXCEPT !.pc = "connect", !.servers = order]
    /\ ftp_event' = [op |-> "start", outcome |-> "ok", sfi |-> 0]
    /\ UNCHANGED <<remote, enqueued>>
    /\ UNCHANGED notFtpVars

\* the next server: connect, login, set_pasv, pwd; or, after the last
\* server, process_station_data_files
FtpConnect(outcome) ==
    /\ ftp.pc = "connect"
    /\ IF ftp.servers = <<>>
       THEN /\ ftp' = [ftp EXCEPT !.pc = "done"]
            /\ ftp_event' = [op |-> "process_station_data_files", outcome |-> "ok", sfi |-> 0]
       ELSE IF outcome = "ok"
       THEN /\ ftp' = [ftp EXCEPT !.pc = "cwd", !.sfis = ProfilesOf(Head(ftp.servers)),
                                  !.cwd = home_folder]
            /\ ftp_event' = [op |-> "connect", outcome |-> outcome, sfi |-> 0]
       ELSE FtpAbort("connect", outcome, 0)
    /\ UNCHANGED <<remote, enqueued>>
    /\ UNCHANGED notFtpVars

\* the next profile of the server: ftp.cwd(sfi.remote_folder), whose
\* error_perm is logged, then ftp.nlst(sfi.file_pattern)
FtpProfile(cwd_outcome, nlst_outcome) ==
    /\ ftp.pc = "cwd"
    /\ IF ftp.sfis = <<>>
       THEN /\ ftp' = [ftp EXCEPT !.pc = "connect", !.servers = Tail(@)]
            /\ ftp_event' = [op |-> "quit", outcome |-> "ok", sfi |-> 0]
       ELSE LET sfi == Head(ftp.sfis)
                dir == IF cwd_outcome = "ok" THEN sfi.remote_folder ELSE ftp.cwd
            IN IF cwd_outcome = "error_reply" THEN FtpAbort("cwd", cwd_outcome, sfi.id)
               ELSE IF nlst_outcome # "ok" THEN FtpAbort("nlst", nlst_outcome, sfi.id)
               ELSE /\ ftp' = [ftp EXCEPT !.pc = "file", !.cwd = dir,
                                          !.remote_files =
                                              SeqOfSet(remote[sfi.ftp_server][dir])]
                    /\ ftp_event' = [op |-> "nlst", outcome |-> "ok", sfi |-> sfi.id,
                                     cwd_outcome |-> cwd_outcome, folder |-> dir]
    /\ UNCHANGED <<remote, enqueued>>
    /\ UNCHANGED notFtpVars

\* one file of the listing: the download, the delete and the insert of the
\* StationDataFile; after the last file, ftp.cwd(home_folder)
FtpFile(retr_outcome, delete_outcome) ==
    /\ ftp.pc = "file"
    /\ LET sfi == Head(ftp.sfis)
       IN IF ftp.remote_files = <<>>
          THEN /\ ftp' = [ftp EXCEPT !.pc = "cwd", !.sfis = Tail(@), !.cwd = home_folder]
               /\ ftp_event' = [op |-> "home", outcome |-> "ok", sfi |-> sfi.id]
               /\ UNCHANGED <<remote, enqueued>>
          ELSE LET fname == Head(ftp.remote_files)
               IN IF retr_outcome \in FtpErrors
                  THEN /\ FtpAbort("retr", retr_outcome, sfi.id)
                       /\ UNCHANGED <<remote, enqueued>>
                  ELSE IF retr_outcome = "OSError"
                  THEN /\ ftp' = [ftp EXCEPT !.remote_files = Tail(@)]
                       /\ ftp_event' = [op |-> "retr", outcome |-> retr_outcome,
                                        sfi |-> sfi.id]
                       /\ UNCHANGED <<remote, enqueued>>
                  ELSE /\ ftp' = [ftp EXCEPT !.remote_files = Tail(@)]
                       /\ remote' = IF sfi.delete_from_server /\ delete_outcome = "ok"
                                    THEN [remote EXCEPT ![sfi.ftp_server][ftp.cwd] = @ \ {fname}]
                                    ELSE remote
                       /\ enqueued' = enqueued \cup
                                        {[sfi |-> sfi.id, folder |-> ftp.cwd, fname |-> fname]}
                       /\ ftp_event' = [op |-> "file", outcome |-> delete_outcome,
                                        sfi |-> sfi.id]
    /\ UNCHANGED notFtpVars

NextFtp ==
    \/ \E order \in {<<"s1", "s2">>, <<"s2", "s1">>} : FtpStart(order)
    \/ \E outcome \in {"ok", "error_perm"} : FtpConnect(outcome)
    \/ \E cwd_outcome \in {"ok"} \cup FtpErrors, nlst_outcome \in {"ok", "error_perm"} :
          FtpProfile(cwd_outcome, nlst_outcome)
    \/ \E retr_outcome \in {"ok", "OSError"} \cup FtpErrors,
          delete_outcome \in {"ok"} \cup FtpErrors : FtpFile(retr_outcome, delete_outcome)

(***************************************************************************)
(* predict_data and predict_preciptation_data                              *)
(***************************************************************************)
\* HydroMLPredictionStation.objects.all(): the target station of each task
hydroml_params == <<1, 2>>
PredictionTargets == {1, 2}
PredictionTimes == {Day, Day + Hour}
\* the mapping of a task, prediction_result -> quality_flag id; code "7" has
\* no entry
result_mapping == [code \in {"0", "1"} |-> IF code = "0" THEN QC_GOOD ELSE QC_SUSPICIOUS]
PredictionRecords ==
    {[datetime |-> Day, prediction |-> "0"],
     [datetime |-> Day + Hour, prediction |-> "1"],
     [datetime |-> Day + Hour, prediction |-> "7"]}
\* the answers of the service: up to two records
Responses == UNION {[1..n -> PredictionRecords] : n \in 0..2}
StatusCodes == {200, 500}

\* a translation that leaves out the records without mapping
formated_response_Skip(response) ==
    LET mapped == SelectSeq(response, LAMBDA record : record.prediction \in DOMAIN result_mapping)
    IN [raised |-> FALSE,
        records |-> [k \in 1..Len(mapped) |->
                        [datetime |-> mapped[k].datetime,
                         result |-> result_mapping[mapped[k].prediction]]]]

\* the loop of lines 1307-1320: a KeyError on result_mapping is raised again
formated_response(response) ==
    IF \E k \in 1..Len(response) : response[k].prediction \notin DOMAIN result_mapping
    THEN [raised |-> TRUE, records |-> <<>>]
    ELSE [raised |-> FALSE,
          records |-> [k \in 1..Len(response) |->
                          [datetime |-> response[k].datetime,
                           result |-> result_mapping[response[k].prediction]]]]

\* cursor.executemany of the UPDATE, in order, then conn.commit()
RECURSIVE update_ml_flag(_, _, _)
update_ml_flag(flags, target_station_id, records) ==
    IF records = <<>> THEN flags
    ELSE update_ml_flag([flags EXCEPT ![<<target_station_id, Head(records).datetime>>] =
                                          <<Head(records).result>>],
                        target_station_id, Tail(records))

\* what one call of predict_data does to ml_flag and how it ends
predict_data(target_station_id, no_rows, status_code, response) ==
    LET formated == formated_response(response)
    IN IF no_rows THEN [outcome |-> "no_data", raised |-> TRUE, flags |-> ml_flag]
       ELSE IF status_code # 200
       THEN [outcome |-> "status", raised |-> FALSE, flags |-> ml_flag]
       ELSE IF formated.raised
       THEN [outcome |-> "unmapped", raised |-> TRUE, flags |-> ml_flag]
       ELSE [outcome |-> "written", raised |-> FALSE,
             flags |-> update_ml_flag(ml_flag, target_station_id, formated.records)]

PredictStart ==
    /\ predict.pc = "idle"
    /\ predict' = [pc |-> "loop", i |-> 1]
    /\ predict_event' = [op |-> "start"]
    /\ UNCHANGED ml_flag
    /\ UNCHANGED notPredictVars

\* one iteration of the loop of predict_preciptation_data: the exception of
\* predict_data is logged
PredictTask(no_rows, status_code, response) ==
    /\ predict.pc = "loop"
    /\ predict.i <= Len(hydroml_params)
    /\ LET call == predict_data(hydroml_params[predict.i], no_rows, status_code, response)
       IN /\ ml_flag' = call.flags
          /\ predict_event' = [op |-> "predict_data", target |-> hydroml_params[predict.i],
                               response |-> response, status_code |-> status_code,
                               no_rows |-> no_rows, outcome |-> call.outcome,
                               raised |-> call.raised]
    /\ predict' = [predict EXCEPT !.i = @ + 1]
    /\ UNCHANGED notPredictVars

PredictFinish ==
    /\ predict.pc = "loop"
    /\ predict.i > Len(hydroml_params)
    /\ predict' = [pc |-> "idle", i |-> 0]
    /\ predict_event' = [op |-> "finish"]
    /\ UNCHANGED ml_flag
    /\ UNCHANGED notPredictVars

NextPredict ==
    \/ PredictStart
    \/ \E no_rows \in BOOLEAN, status_code \in StatusCodes, response \in Responses :
          PredictTask(no_rows, status_code, response)
    \/ PredictFinish

(***************************************************************************)
(* process_hourly_summary_tasks and process_daily_summary_tasks            *)
(***************************************************************************)
\* HourlySummaryTask and DailySummaryTask
SummaryKinds == {"hourly", "daily"}
\* the slice [:501] of the distinct unprocessed datetimes or dates
SliceLimit == 501
\* the numbers of distinct windows an ingestion leaves unprocessed
WindowCounts == {1, 500, 501, 502}
IdleSummaryRun == [pc |-> "idle", kind |-> "hourly", batch |-> 0, computed |-> 0]

\* an ingestion inserts tasks for n windows into an empty task table
CreateSummaryTasks(kind, n) ==
    /\ unprocessed[kind] = 0
    /\ summary_run.pc = "idle"
    /\ unprocessed' = [unprocessed EXCEPT ![kind] = n]
    /\ task_event' = [op |-> "create", kind |-> kind]
    /\ UNCHANGED summary_run
    /\ UNCHANGED notTaskVars

\* the query of the distinct unprocessed windows, sliced
SummaryTasksStart(kind) ==
    /\ summary_run.pc = "idle"
    /\ summary_run' = [pc |-> "loop", kind |-> kind,
                       batch |-> Min(unprocessed[kind], SliceLimit), computed |-> 0]
    /\ task_event' = [op |-> "start", kind |-> kind]
    /\ UNCHANGED unprocessed
    /\ UNCHANGED notTaskVars

\* one iteration: the tasks of the window get started_at, the summary of
\* the window is computed, and finished_at is set unless it raised
SummaryTasksWindow(raised) ==
    /\ summary_run.pc = "loop"
    /\ summary_run.computed < summary_run.batch
    /\ summary_run' = [summary_run EXCEPT !.computed = @ + 1]
    /\ unprocessed' = [unprocessed EXCEPT ![summary_run.kind] = @ - 1]
    /\ task_event' = [op |-> "window", kind |-> summary_run.kind, raised |-> raised]
    /\ UNCHANGED notTaskVars

SummaryTasksFinish ==
    /\ summary_run.pc = "loop"
    /\ summary_run.computed = summary_run.batch
    /\ summary_run' = IdleSummaryRun
    /\ task_event' = [op |-> "finish", kind |-> summary_run.kind,
                      computed |-> summary_run.computed]
    /\ UNCHANGED unprocessed
    /\ UNCHANGED notTaskVars

NextSummaryTasks ==
    \/ \E kind \in SummaryKinds, n \in WindowCounts : CreateSummaryTasks(kind, n)
    \/ \E kind \in SummaryKinds : SummaryTasksStart(kind)
    \/ \E raised \in BOOLEAN : SummaryTasksWindow(raised)
    \/ SummaryTasksFinish

(***************************************************************************)
(* dcp_tasks_scheduler run once a minute over one device                   *)
(***************************************************************************)
MaxMinutes == 130

\* minute and second of first_transmission_time and of transmission_window
TransmissionMinutes == {10, 50}
WindowMinutes == {10, 15}

IdleMinutely == [pc |-> "register", now |-> StartClock, noaaDcp |-> None, eligible |-> FALSE]

\* a NoaaDcp row is created; last_datetime is null until the first dispatch
RegisterDevice(minute, window) ==
    /\ minutely.pc = "register"
    /\ minutely' = [minutely EXCEPT
           !.pc = "run",
           !.noaaDcp = <<[last_datetime |-> None,
                          first_transmission_time |-> [hour |-> 0, minute |-> minute, second |-> 0],
                          transmission_window |-> [hour |-> 0, minute |-> window, second |-> 0]]>>]
    /\ UNCHANGED notMinuteVars

\* one run of dcp_tasks_scheduler: the device is tested and, when eligible,
\* stamped with now and dispatched; retrieve_dpc_messages runs inside
\* try/except and writes nothing the test reads
MinuteScheduler ==
    /\ minutely.pc = "run"
    /\ LET now == minutely.now
           noaaDcp == minutely.noaaDcp[1]
           eligible == Eligible(now, noaaDcp)
       IN minutely' = [minutely EXCEPT
              !.pc = "tick",
              !.eligible = eligible,
              !.noaaDcp = IF eligible
                          THEN <<[noaaDcp EXCEPT !.last_datetime = <<now>>]>>
                          ELSE @]
    /\ UNCHANGED notMinuteVars

\* the beat schedule starts the next run a minute later
MinuteTick ==
    /\ minutely.pc = "tick"
    /\ minutely.now < StartClock + MaxMinutes * 60
    /\ minutely' = [minutely EXCEPT !.pc = "run", !.now = @ + 60]
    /\ UNCHANGED notMinuteVars

NextMinutely ==
    \/ \E minute \in TransmissionMinutes, window \in WindowMinutes :
           RegisterDevice(minute, window)
    \/ MinuteScheduler
    \/ MinuteTick

(***************************************************************************)
(* process_document                                                        *)
(***************************************************************************)
MaxUploads == 2
DocumentLimit == 60

\* what happens when the file of a document is decoded: the decoder returns,
\* the decoder raises on every attempt, or the decoder name of the document
\* is not a key of available_decoders
DocumentKinds == {"good", "failing", "unknown"}
\* the number of documents uploaded together
DocumentBatches == {1, DocumentLimit}

IdleDocumentRun == [pc |-> "idle", document_list |-> <<>>, i |-> 0]

UploadedBatches == IF documents = <<>> THEN 0 ELSE documents[Len(documents)].batch

\* documents of one kind are uploaded; processed defaults to False
UploadDocuments(kind, n) ==
    /\ UploadedBatches < MaxUploads
    /\ documents' = documents \o [k \in 1..n |-> [kind |-> kind,
                                                   batch |-> UploadedBatches + 1,
                                                   processed |-> FALSE]]
    /\ UNCHANGED doc_run
    /\ UNCHANGED notDocVars

\* Document.objects.filter(processed=False).order_by('id')[:60]
FirstUnprocessed(limit) ==
    LET NotProcessed(id) == ~documents[id].processed
        ids == SelectSeq([id \in 1..Len(documents) |-> id], NotProcessed)
    IN SubSeq(ids, 1, Min(Len(ids), limit))

\* the task starts and the loop evaluates document_list
ProcessDocumentStart ==
    /\ doc_run.pc = "idle"
    /\ doc_run' = [pc |-> "loop",
                   document_list |-> FirstUnprocessed(DocumentLimit),
                   i |-> 1]
    /\ UNCHANGED documents
    /\ UNCHANGED notDocVars

\* one iteration: the decoder lookup outside the try, the decoder call
\* inside it, processed = True in the else clause
ProcessDocumentStep ==
    /\ doc_run.pc = "loop"
    /\ doc_run.i <= Len(doc_run.document_list)
    /\ LET id == doc_run.document_list[doc_run.i]
       IN CASE documents[id].kind = "unknown" ->
                 /\ doc_run' = [doc_run EXCEPT !.pc = "aborted"]
                 /\ UNCHANGED documents
            [] documents[id].kind = "failing" ->
                 /\ doc_run' = [doc_run EXCEPT !.i = @ + 1]
                 /\ UNCHANGED documents
            [] documents[id].kind = "good" ->
                 /\ doc_run' = [doc_run EXCEPT !.i = @ + 1]
                 /\ documents' = [documents EXCEPT ![id].processed = TRUE]
    /\ UNCHANGED notDocVars

\* the loop is over, or the KeyError has left the task
ProcessDocumentFinish ==
    /\ \/ doc_run.pc = "loop" /\ doc_run.i > Len(doc_run.document_list)
       \/ doc_run.pc = "aborted"
    /\ doc_run' = IdleDocumentRun
    /\ UNCHANGED documents
    /\ UNCHANGED notDocVars

ProcessDocument == ProcessDocumentStart \/ ProcessDocumentStep \/ ProcessDocumentFinish

NextDocuments ==
    \/ \E kind \in DocumentKinds, n \in DocumentBatches : UploadDocuments(kind, n)
    \/ ProcessDocumentStart
    \/ ProcessDocumentStep
    \/ ProcessDocumentFinish

(***************************************************************************)
(* process_hourly_summary_tasks over the rows of HourlySummaryTask;        *)
(* process_daily_summary_tasks has the same shape over DailySummaryTask    *)
(***************************************************************************)
MaxTasks == 3
\* the hours (or days) the tasks are for
TaskWindows == {1, 2}

IdleTaskRun == [pc |-> "idle", datetimes |-> <<>>, i |-> 0, ids |-> {}]

\* an ingestion inserts a task for a window it stored readings in; covered is
\* history: a summary computation of the window began after the insert
InsertSummaryTask(window) ==
    /\ Len(task_rows) < MaxTasks
    /\ task_rows' = Append(task_rows, [datetime |-> window, started_at |-> FALSE,
                                        finished_at |-> FALSE, covered |-> FALSE])
    /\ UNCHANGED task_run
    /\ UNCHANGED notRowVars

\* filter(started_at=None).values_list('datetime', flat=True).distinct()
UnprocessedDatetimes ==
    {task_rows[id].datetime : id \in {k \in 1..Len(task_rows) : ~task_rows[k].started_at}}

\* the run starts: the loop evaluates the sliced query once, in some order
TaskRunStart(order) ==
    /\ task_run.pc = "idle"
    /\ task_run' = [pc |-> "loop", datetimes |-> Take(order, SliceLimit), i |-> 1, ids |-> {}]
    /\ UNCHANGED task_rows
    /\ UNCHANGED notRowVars

\* list(filter(started_at=None, datetime=...).values_list('id', flat=True))
hourly_summary_tasks_ids(window) ==
    {id \in 1..Len(task_rows) :
        ~task_rows[id].started_at /\ task_rows[id].datetime = window}

\* one iteration up to the call: the ids are read, started_at is set on them
\* and calculate_hourly_summary begins
TaskWindowBegin ==
    /\ task_run.pc = "loop"
    /\ task_run.i <= Len(task_run.datetimes)
    /\ LET window == task_run.datetimes[task_run.i]
           ids == hourly_summary_tasks_ids(window)
       IN /\ task_rows' = [id \in 1..Len(task_rows) |->
                              [task_rows[id] EXCEPT
                                  !.started_at = @ \/ id \in ids,
                                  !.covered = @ \/ task_rows[id].datetime = window]]
          /\ task_run' = [task_run EXCEPT !.pc = "compute", !.ids = ids]
    /\ UNCHANGED notRowVars

\* a finish that marks every task of the window
finished_tasks_ByWindow(ids, window) ==
    {id \in 1..Len(task_rows) : task_rows[id].datetime = window}

\* HourlySummaryTask.objects.filter(id__in=hourly_summary_tasks_ids)
finished_tasks(ids, window) == ids

\* the call returns, and finished_at is set, or it raises, and the error is
\* logged; the loop goes on
TaskWindowEnd(raised) ==
    /\ task_run.pc = "compute"
    /\ LET window == task_run.datetimes[task_run.i]
       IN task_rows' = [id \in 1..Len(task_rows) |->
                           [task_rows[id] EXCEPT
                               !.finished_at = @ \/ (/\ ~raised
                                                     /\ id \in finished_tasks(task_run.ids, window))]]
    /\ task_run' = [task_run EXCEPT !.pc = "loop", !.i = @ + 1, !.ids = {}]
    /\ UNCHANGED notRowVars

TaskRunFinish ==
    /\ task_run.pc = "loop"
    /\ task_run.i > Len(task_run.datetimes)
    /\ task_run' = IdleTaskRun
    /\ UNCHANGED task_rows
    /\ UNCHANGED notRowVars

\* the steps of the task itself
ProcessSummaryTasks ==
    \/ \E order \in Orders(UnprocessedDatetimes) : TaskRunStart(order)
    \/ TaskWindowBegin
    \/ \E raised \in BOOLEAN : TaskWindowEnd(raised)
    \/ TaskRunFinish

NextTaskRows ==
    \/ \E window \in TaskWindows : InsertSummaryTask(window)
    \/ \E order \in Orders(UnprocessedDatetimes) : TaskRunStart(order)
    \/ TaskWindowBegin
    \/ \E raised \in BOOLEAN : TaskWindowEnd(raised)
    \/ TaskRunFinish

(***************************************************************************)
(* retrieve_dpc_messages of two dispatches in flight: the search criteria  *)
(* file and the subprocess that reads it                                   *)
(***************************************************************************)
IdleRetrieve == [pc |-> "idle", dcp_address |-> 0, last_execution |-> None, read |-> None]

\* the text set_search_criteria writes for a device
search_criteria(dcp_address, last_execution) ==
    [dcp_address |-> dcp_address,
     drs_since |-> dcp_query_window(StartClock, last_execution, 24)]

\* a scheduler run dispatches a device with one related station
RetrieveStart(w, dcp_address, last_execution) ==
    /\ retrieve[w].pc = "idle"
    /\ retrieve' = [retrieve EXCEPT ![w] = [pc |-> "criteria", dcp_address |-> dcp_address,
                                             last_execution |-> last_execution,
                                             read |-> None]]
    /\ UNCHANGED lrgs_cs_file
    /\ UNCHANGED notCsVars

\* set_search_criteria: open(settings.LRGS_CS_FILE_PATH, 'w') and write
SetSearchCriteria(w) ==
    /\ retrieve[w].pc = "criteria"
    /\ lrgs_cs_file' = <<search_criteria(retrieve[w].dcp_address, retrieve[w].last_execution)>>
    /\ retrieve' = [retrieve EXCEPT ![w].pc = "popen"]
    /\ UNCHANGED notCsVars

\* subprocess.Popen([... '-f', settings.LRGS_CS_FILE_PATH]): the client
\* reads the criteria file
SubprocessReads(w) ==
    /\ retrieve[w].pc = "popen"
    /\ retrieve' = [retrieve EXCEPT ![w].pc = "decode", ![w].read = lrgs_cs_file]
    /\ UNCHANGED lrgs_cs_file
    /\ UNCHANGED notCsVars

\* communicate() returns and the response is decoded for the device
RetrieveDecode(w) ==
    /\ retrieve[w].pc = "decode"
    /\ retrieve' = [retrieve EXCEPT ![w] = IdleRetrieve]
    /\ UNCHANGED lrgs_cs_file
    /\ UNCHANGED notCsVars

NextRetrieve ==
    \/ \E w \in Workers, dcp_address \in DcpIds,
             last_execution \in {None, <<StartClock - 5 * Hour>>} :
           RetrieveStart(w, dcp_address, last_execution)
    \/ \E w \in Workers : SetSearchCriteria(w)
    \/ \E w \in Workers : SubprocessReads(w)
    \/ \E w \in Workers : RetrieveDecode(w)

NextDaily ==
    \/ \E rd \in Readings(DailyReadingTimes) : InsertRaw(rd)
    \/ \E start \in DailyStarts, end \in DailyEnds, ids \in StationLists :
           \E order \in Orders(Offsets(ids)) :
               CalculateDailySummary(start, end, ids, order)

NextHourly ==
    \/ \E rd \in HourlyReadings : InsertRaw(rd)
    \/ \E start \in HourlyStarts, window \in HourlyWindows, ids \in StationLists :
           CalculateHourlySummary(start, start + window, ids)

NextJobs == NextJobsOf(Workers)
NextJobsSeq == NextJobsOf({"w1"})

Init ==
    /\ InitJobs
    /\ InitSummary
    /\ raw_qc = {}
    /\ station_var = [id \in StationIds |-> None]
    /\ qc_call = [op |-> "none", ok |-> TRUE]
    /\ dcp \in DcpRows
    /\ clock = StartClock
    /\ sched = [w \in Workers |-> IdleScheduler]
    /\ cs_file = None
    /\ claimed = {}
    /\ dcp_event = [op |-> "none"]
    /\ entl = [pc |-> "connect", ended_by |-> "start", slept |-> 0]
    /\ forwarded = {}
    /\ entl_event = [op |-> "none"]
    /\ export_table = {}
    /\ datafile = [ready |-> FALSE, lines |-> <<0>>]
    /\ export_call = [op |-> "none"]
    /\ ftp = [pc |-> "idle", servers |-> <<>>, sfis |-> <<>>, cwd |-> "/",
              remote_files |-> <<>>]
    /\ remote = RemoteFiles
    /\ enqueued = {}
    /\ ftp_event = [op |-> "none"]
    /\ ml_flag = [k \in PredictionTargets \X PredictionTimes |-> None]
    /\ predict = [pc |-> "idle", i |-> 0]
    /\ predict_event = [op |-> "none"]
    /\ unprocessed = [kind \in SummaryKinds |-> 0]
    /\ summary_run = IdleSummaryRun
    /\ task_event = [op |-> "none"]
    /\ minutely = IdleMinutely
    /\ documents = <<>>
    /\ doc_run = IdleDocumentRun
    /\ task_rows = <<>>
    /\ task_run = IdleTaskRun
    /\ lrgs_cs_file = None
    /\ retrieve = [w \in Workers |-> IdleRetrieve]

\* two overlapping runs of the ingestion tasks
SpecJobs == Init /\ [][NextJobs]_vars
\* one run at a time
SpecJobsSeq == Init /\ [][NextJobsSeq]_vars
\* calculate_hourly_summary over a growing raw_data
SpecHourly == Init /\ [][NextHourly]_vars
\* calculate_daily_summary over a growing raw_data
SpecDaily == Init /\ [][NextDaily]_vars
\* the hourly, daily and last24h summaries over a growing raw_data
SpecAggregates == Init /\ [][NextAggregates]_vars
\* the two quality control tests over a growing raw_data and changing thresholds
SpecQc == Init /\ [][NextQc]_vars
SpecQcAccepting == Init /\ [][NextQcAccepting]_vars
\* two overlapping runs of dcp_tasks_scheduler
SpecDcp == Init /\ [][NextDcp]_vars
\* one run of dcp_tasks_scheduler at a time
SpecDcpSeq == Init /\ [][NextDcpSeq]_vars
\* repeated runs of process_document over a growing table
SpecDocuments == Init /\ [][NextDocuments]_vars
\* the task is scheduled again and again and every started run goes on
SpecDocumentsLive == SpecDocuments /\ WF_vars(ProcessDocument)
\* runs of process_hourly_summary_tasks while ingestion inserts tasks
SpecTaskRows == Init /\ [][NextTaskRows]_vars
\* the task is scheduled again and again, a started run goes on, and a
\* computation that is attempted again and again succeeds in the end
SpecTaskRowsLive ==
    SpecTaskRows /\ WF_vars(ProcessSummaryTasks) /\ SF_vars(TaskWindowEnd(FALSE))
\* two dispatches of retrieve_dpc_messages in flight
SpecRetrieve == Init /\ [][NextRetrieve]_vars
\* dcp_tasks_scheduler every minute over one device
SpecMinutely == Init /\ [][NextMinutely]_vars
\* runs of process_hourly_summary_tasks and process_daily_summary_tasks
SpecSummaryTasks == Init /\ [][NextSummaryTasks]_vars
\* runs of predict_preciptation_data
SpecPredict == Init /\ [][NextPredict]_vars
\* one run of ftp_ingest_station_files
SpecFtp == Init /\ [][NextFtp]_vars
\* export_data over a growing table
SpecExport == Init /\ [][NextExport]_vars
\* get_entl_data
SpecEntl == Init /\ [][NextEntl]_vars
\* get_entl_data as a running task: connect, send, recv and sleep all return
\* or raise
SpecEntlLive == SpecEntl /\ WF_vars(NextEntl)

(***************************************************************************)
(* Properties of process_station_data_files                                *)
(***************************************************************************)
\* the rows a run has selected and not yet settled
Holding(w) ==
    LET r == run[w]
    IN IF r.pc = "mark" THEN {r.list[k].id : k \in 1..Len(r.list)}
       ELSE IF r.pc \in {"check", "skip", "decode"}
            THEN {r.list[k].id : k \in r.i..Len(r.list)}
            ELSE {}

\* C1: no StationDataFile is claimed by more than one run: two runs never
\* hold the same selected, not yet settled job in their batches.
C1_NoDoubleClaim ==
    \A w1, w2 \in Workers : w1 # w2 => Holding(w1) \cap Holding(w2) = {}

SameHash(i, j) == sdf[i].file_hash = sdf[j].file_hash

\* the first enqueued job with the file_hash of job j
FirstWithHash(j) ==
    CHOOSE i \in JobIds : SameHash(i, j) /\ \A k \in JobIds : SameHash(k, j) => i <= k

\* C2: of jobs with one file_hash it is the later job that is marked SKIPPED
\* and never decoded: a later job is decoded only when the first job with
\* that hash was itself decoded before (and ended in ERROR, or was SKIPPED
\* after that); the first job never gives way to a later one.
C2_SecondSkipped ==
    \A j \in JobIds : decoded[j] => decoded[FirstWithHash(j)]

\* C3 as stated: two distinct jobs with the same file_hash are never both
\* decoded.
C3_NeverBothDecoded ==
    \A i, j \in JobIds : (i # j /\ SameHash(i, j)) => ~(decoded[i] /\ decoded[j])

\* C3 amended: a job is passed to a decoder only if, at its deduplication
\* query, every other job with the same file_hash was in ERROR or SKIPPED.
C3_DecodedOnlyPastDedup ==
    (event.op \in {"returned", "raised"} /\ ~run[event.w].force_reprocess)
        => event.seen \subseteq {ERROR, SKIPPED}

\* two jobs with one file_hash have both been decoded, the second one after
\* a deduplication query that found the first in ERROR
C3_Witness ==
    /\ event.op = "returned"
    /\ event.seen = {ERROR}
    /\ \E i \in JobIds : i # event.j /\ SameHash(i, event.j) /\ decoded[i]
    /\ decoded[event.j]

\* C4: status transitions are monotonic: PENDING/REPROGRAM -> IN_PROGRESS ->
\* DONE, ERROR or SKIPPED, and only an explicit reprocess request takes a job
\* out of DONE, ERROR or SKIPPED.
C4_MonotonicStatus ==
    [][\A j \in JobIds :
          LET a == sdf[j].status_id
              b == sdf'[j].status_id
          IN \/ a = b
             \/ a \in {PENDING, REPROGRAM} /\ b = IN_PROGRESS
             \/ a = IN_PROGRESS /\ b \in {DONE, ERROR, SKIPPED}
             \/ /\ a \in {DONE, ERROR, SKIPPED}
                /\ b = REPROGRAM
                /\ reprograms' = reprograms + 1]_vars

Settled(status) == status \in {DONE, ERROR, SKIPPED}

\* C5: a decoder that returns leaves the job DONE; one that raises leaves it
\* ERROR with an observation of at most 1024 characters and the run goes on
\* to the next job, so that a run that ends normally has settled its whole
\* batch; a run selects only PENDING or REPROGRAM jobs, and a job gets back
\* to one of these only by an explicit reprocess request.
C5_DecoderOutcome ==
    /\ [](event.op = "returned" => sdf[event.j].status_id = DONE)
    /\ [](event.op = "raised" =>
            /\ sdf[event.j].status_id = ERROR
            /\ sdf[event.j].observation \in 1..1024
            /\ run[event.w].pc \in {"check", "decode", "done"}
            /\ run[event.w].list[run[event.w].i - 1].id = event.j)
    /\ [](\A w \in Workers :
            (\E k \in 1..Len(run[w].list) : run[w].list[k].status_id = ERROR) =>
                /\ run[w].pc # "aborted"
                /\ run[w].pc = "done" =>
                       \A k \in 1..Len(run[w].list) : Settled(run[w].list[k].status_id))
    /\ [](event.op = "select" =>
            \A k \in 1..Len(run[event.w].list) :
                sdf[run[event.w].list[k].id].status_id \in {PENDING, REPROGRAM})
    /\ [][\A j \in JobIds :
            (sdf'[j].status_id \in {PENDING, REPROGRAM}
                 /\ sdf'[j].status_id # sdf[j].status_id)
              => (sdf'[j].status_id = REPROGRAM /\ reprograms' = reprograms + 1)]_vars

\* a run has ended normally on a batch of two: the decoder raised on the
\* first job, whose long diagnostic was cut to 1024 characters, and the
\* second job was still decoded
C5_Witness ==
    \E w \in Workers :
        /\ run[w].pc = "done"
        /\ Len(run[w].list) = 2
        /\ run[w].list[1].status_id = ERROR
        /\ sdf[run[w].list[1].id].status_id = ERROR
        /\ sdf[run[w].list[1].id].observation = 1024
        /\ run[w].list[2].status_id = DONE

\* C6: a job whose decoder name is not in the decoder table, or whose decoder
\* is unset, fails alone: it ends in ERROR with a stored diagnostic and the
\* run goes on, wherever the job stands in the batch.
C6_LookupFailureContained ==
    event.op = "lookup failed" =>
        /\ sdf[event.j].status_id = ERROR
        /\ sdf[event.j].observation > 0
        /\ run[event.w].pc # "aborted"

(***************************************************************************)
(* Properties of the summary engine                                        *)
(***************************************************************************)
\* a reading the summaries aggregate
Good(rd) == Accepted(rd) /\ calc_value(rd) # MISSING_VALUE

InWindow(rd) ==
    /\ rd.station_id \in last_call.station_ids
    /\ rd.datetime >= last_call.start
    /\ rd.datetime <= last_call.end

HourlyRan == last_call.op = "hourly" /\ last_call.ok /\ last_call.start <= last_call.end

\* the scenario of C7: the call for the bucket starting at 01:00 of day 1,
\* with good sub-daily readings of station 1 at exactly 01:00 and 02:00 in
\* its window
C7_Scenario ==
    /\ HourlyRan
    /\ last_call.start = Day + Hour
    /\ 1 \in last_call.station_ids
    /\ {rd.datetime : rd \in {x \in raw_data : /\ x.station_id = 1
                                               /\ Good(x) /\ InWindow(x)}}
           = {Day + Hour, Day + 2 * Hour}
    /\ \A x \in raw_data : (x.station_id = 1 /\ Good(x) /\ InWindow(x)) => ~x.is_daily

\* C7 as stated: with readings at 01:00 and 02:00 the 02:00 reading is
\* counted in the bucket starting at 01:00, which gets count = 2.
C7_BoundaryInPreviousHour ==
    C7_Scenario =>
        \E row \in hourly_summary : /\ Key(row) = <<Day + Hour, 1, 5>>
                                    /\ row.agg.num_records = 2

\* C7 amended: one second is subtracted only from a sub-daily reading at
\* exactly midnight, which goes to the 23:00 bucket of the day before; any
\* other reading, on an hour boundary or not, stays in the hour of its own
\* timestamp.  The row written for the start hour aggregates exactly these
\* readings, and in the scenario the bucket starting at 01:00 gets count = 1.
C7_MidnightInPreviousHour ==
    /\ HourlyRan =>
          \A st \in last_call.station_ids :
              LET counted == {rd \in raw_data :
                                 /\ rd.station_id = st /\ ~rd.is_daily
                                 /\ Good(rd) /\ InWindow(rd)
                                 /\ last_call.start =
                                        IF rd.datetime % Day = 0
                                        THEN rd.datetime - Hour
                                        ELSE rd.datetime - (rd.datetime % Hour)}
              IN counted # {} =>
                     \E row \in hourly_summary :
                         /\ Key(row) = <<last_call.start, st, 5>>
                         /\ row.agg = Aggregates(counted)
    /\ C7_Scenario =>
          \E row \in hourly_summary : /\ Key(row) = <<Day + Hour, 1, 5>>
                                      /\ row.agg.num_records = 1

\* the scenario has been run and the 01:00 row holds the 01:00 reading alone
C7_Witness ==
    /\ C7_Scenario
    /\ \E row \in hourly_summary : /\ Key(row) = <<Day + Hour, 1, 5>>
                                   /\ row.agg.num_records = 1

\* the hour bucket the code gives a reading
BucketOf(rd) ==
    IF rd.is_daily THEN date_trunc_hour(rd.datetime) ELSE HourBucket(rd.datetime)

\* C8: after calculate_hourly_summary(start, end, stations) every hour bucket
\* lying in [start, end] that has accepted readings of a given station has a
\* row reflecting the current raw readings.
C8_EveryBucketInRange ==
    HourlyRan =>
        \A rd \in raw_data :
            (/\ Good(rd) /\ InWindow(rd)
             /\ BucketOf(rd) >= last_call.start
             /\ BucketOf(rd) + Hour <= last_call.end)
            => \E row \in hourly_summary :
                   /\ Key(row) = <<BucketOf(rd), rd.station_id, rd.variable_id>>
                   /\ row.agg = Aggregates({x \in raw_data :
                                     /\ Good(x) /\ InWindow(x)
                                     /\ x.is_daily = rd.is_daily
                                     /\ x.station_id = rd.station_id
                                     /\ x.variable_id = rd.variable_id
                                     /\ BucketOf(x) = BucketOf(rd)})

NoDuplicateKeys(tbl) == \A a, b \in tbl : Key(a) = Key(b) => a = b

\* C9: running calculate_hourly_summary again with the same parameters over
\* unchanged raw readings ends as the first run did and leaves the same
\* rows: no key is inserted twice and all values are equal.
C9_HourlyIdempotent ==
    last_call.op = "hourly" =>
        LET again == calculate_hourly_summary(hourly_summary, last_call.start,
                                              last_call.end, last_call.station_ids)
        IN /\ again.ok = last_call.ok
           /\ again.tbl = hourly_summary
           /\ NoDuplicateKeys(hourly_summary)

\* the call has been run twice in a row and its rows are in the table
C9_Witness ==
    /\ HourlyRan
    /\ last_call.repeat
    /\ \E row \in hourly_summary : /\ row.period = last_call.start
                                   /\ row.station_id \in last_call.station_ids

\* C10: running calculate_daily_summary again with the same parameters over
\* unchanged raw readings, after a run that returned normally, returns
\* normally and leaves the same rows, whatever the readings: every day the
\* insert produces a row for is covered by the delete before it.
C10_DailyIdempotent ==
    (last_call.op = "daily" /\ last_call.ok) =>
        \A order \in Orders(Offsets(last_call.station_ids)) :
            LET again == calculate_daily_summary(daily_summary, last_call.start,
                             last_call.end, last_call.station_ids, order)
            IN again.ok /\ again.tbl = daily_summary

\* the effective value of a reading: consisted if present, else measured
EffectiveValue(rd) == IF rd.consisted = None THEN rd.measured ELSE rd.consisted[1]

SummaryRows == hourly_summary \cup daily_summary \cup last24h_summary

\* C11: no reading whose effective value is MISSING_VALUE contributes to the
\* min, max, avg, sum or count of a row of hourly_summary, daily_summary or
\* last24h_summary: the aggregates of every row are those of readings none
\* of which has the sentinel as effective value.
C11_MissingExcluded ==
    \A row \in SummaryRows :
        /\ \A rd \in row.readings : EffectiveValue(rd) # MISSING_VALUE
        /\ row.agg.num_records = Cardinality(row.readings)
        /\ row.agg.min_value # MISSING_VALUE
        /\ row.agg.max_value # MISSING_VALUE
        /\ \A rd \in row.readings :
               row.agg.min_value <= EffectiveValue(rd) /\ EffectiveValue(rd) <= row.agg.max_value

\* the three tables hold rows although raw_data holds a reading whose
\* measured value is the sentinel and one whose consisted value is
C11_Witness ==
    /\ last24h_summary # {}
    /\ hourly_summary # {}
    /\ \E rd \in raw_data : rd.measured = MISSING_VALUE \/ rd.consisted = <<MISSING_VALUE>>
    /\ \E rd \in raw_data, now \in Last24hNows :
           /\ rd.consisted = <<MISSING_VALUE>>
           /\ last_call.op = "last24h" /\ last_call.start = now
           /\ rd.datetime > now - Day /\ rd.datetime <= now

\* C12: every reading that contributes to a row of hourly_summary,
\* daily_summary or last24h_summary has an accepted manual_flag, or no
\* manual_flag and an accepted quality_flag.
C12_SameAcceptance ==
    \A row \in SummaryRows :
        \A rd \in row.readings :
            \/ rd.manual_flag # None /\ rd.manual_flag[1] \in {1, 4}
            \/ rd.manual_flag = None /\ rd.quality_flag \in {1, 4}

(***************************************************************************)
(* Properties of the quality control tests                                 *)
(***************************************************************************)
\* the thresholds configured for the pair of reading rd, if any
StepThresholdOf(rd) ==
    IF station_var[rd.station_id] = None THEN None
    ELSE station_var[rd.station_id][1].test_step_value

VarianceThresholdOf(rd) ==
    IF station_var[rd.station_id] = None THEN None
    ELSE station_var[rd.station_id][1].test_persistence_variance

\* the absolute difference of rd from its time-predecessor exceeds t
StepOver(tbl, rd, t) ==
    \E x \in tbl :
        /\ SamePair(x, rd) /\ x.datetime < rd.datetime
        /\ \A y \in tbl : (SamePair(y, rd) /\ y.datetime < rd.datetime)
                               => y.datetime <= x.datetime
        /\ (rd.measured - x.measured > t \/ x.measured - rd.measured > t)

\* C13: after calculate_step_qc_test every reading of a pair with a
\* configured test_step_value T is SUSPICIOUS when its step from its
\* predecessor exceeds T and good otherwise (the first of the series
\* included), and every reading of a pair without a threshold (no row, or a
\* null test_step_value) is NEUTRAL with a null description.
C13_StepFlags ==
    qc_call.op = "step" =>
        \A rd \in raw_qc :
            IF StepThresholdOf(rd) # None
            THEN rd.qc_step_quality_flag =
                     IF StepOver(raw_qc, rd, StepThresholdOf(rd)[1])
                     THEN QC_SUSPICIOUS ELSE QC_GOOD
            ELSE /\ rd.qc_step_quality_flag = QC_NEUTRAL
                 /\ rd.qc_step_description = None

\* the row of tbl with the key of rd
SameRow(tbl, rd) == CHOOSE x \in tbl : SamePair(x, rd) /\ x.datetime = rd.datetime

\* C14: calculate_step_qc_test changes the quality_flag of a reading only
\* when its step exceeds the threshold and its qc_persist_quality_flag is
\* already SUSPICIOUS, and then the quality_flag is a rejected code (not one
\* of the accepted codes 1, 4); the quality_flag of any other reading is
\* left unchanged.
C14_HardFailOnly ==
    [][qc_call'.op = "step" =>
          \A rd \in raw_qc :
              IF /\ StepThresholdOf(rd) # None
                 /\ StepOver(raw_qc, rd, StepThresholdOf(rd)[1])
                 /\ rd.qc_persist_quality_flag = QC_SUSPICIOUS
              THEN SameRow(raw_qc', rd).quality_flag \notin {1, 4}
              ELSE SameRow(raw_qc', rd).quality_flag = rd.quality_flag]_vars

\* C15: after calculate_persist_qc_test, when the variance over the trailing
\* window [t - 24h, t) of a reading at t exceeds test_persistence_variance,
\* every reading of the window is SUSPICIOUS, the one exactly 24 hours
\* before t included.
C15_WholeWindowFlagged ==
    qc_call.op = "persist" =>
        \A rd \in raw_qc :
            (/\ VarianceThresholdOf(rd) # None
             /\ VarianceExceeds({x \in raw_qc : /\ SamePair(x, rd)
                                                  /\ x.datetime < rd.datetime
                                                  /\ x.datetime >= rd.datetime - Day},
                                 VarianceThresholdOf(rd)[1]))
            => \A x \in raw_qc :
                   (/\ SamePair(x, rd)
                    /\ x.datetime < rd.datetime
                    /\ x.datetime >= rd.datetime - Day)
                   => x.qc_persist_quality_flag = QC_SUSPICIOUS

\* the store with every prior persistence flag taken back to its initial value
WithoutPersistFlags(tbl) ==
    {[x EXCEPT !.qc_persist_quality_flag = QC_NEUTRAL,
               !.qc_persist_description = None] : x \in tbl}

\* C16: a run of calculate_persist_qc_test from the store and a run from the
\* store that differs from it only in the prior qc_persist_quality_flag
\* values end with the same persistence flag on every reading of a pair with
\* a configured threshold.
C16_PersistFlagsFromReadingsOnly ==
    LET one == calculate_persist_qc_test(raw_qc)
        other == calculate_persist_qc_test(WithoutPersistFlags(raw_qc))
    IN \A x \in one :
           VarianceThresholdOf(x) # None =>
               SameRow(other, x).qc_persist_quality_flag = x.qc_persist_quality_flag


\* C17: in sequential runs of dcp_tasks_scheduler a device whose last_datetime
\* is null is found eligible at its check, and a device is found eligible,
\* and dispatched to retrieve_dpc_messages, at most once for the same
\* computed next_execution.
C17_EligibleOncePerWindow ==
    /\ (dcp_event.op = "check" /\ dcp_event.last_datetime = None) => dcp_event.eligible
    /\ (dcp_event.op = "check" /\ dcp_event.eligible) => ~dcp_event.repeat
    /\ dcp_event.op = "retrieve" => ~dcp_event.repeat

\* a device is checked again in a window it was already dispatched for, and
\* is turned down
C17_Witness ==
    /\ dcp_event.op = "check"
    /\ dcp_event.repeat
    /\ ~dcp_event.eligible
    /\ dcp_event.last_datetime # None
    /\ dcp_event.last_datetime[1] >= dcp_event.next_execution

\* C18: when two runs of dcp_tasks_scheduler overlap, no device is dispatched
\* to retrieve_dpc_messages by both of them for the same transmission window.
C18_NoDoubleDispatch ==
    dcp_event.op = "retrieve" => ~dcp_event.repeat

\* C19 (as stated): for a device with a prior execution next_execution is
\* today's date at the hour, minute and second of first_transmission_time
\* plus the whole transmission_window, and the device is eligible exactly
\* when next_execution <= now and last_datetime < next_execution.
C19_TodayAtFirstTransmission ==
    (dcp_event.op = "check" /\ dcp_event.last_datetime # None) =>
        LET e == dcp_event
            next == DateOf(e.now) * Day
                      + e.first_transmission_time.hour * Hour
                      + e.first_transmission_time.minute * 60
                      + e.first_transmission_time.second
                      + e.transmission_window.hour * Hour
                      + e.transmission_window.minute * 60
                      + e.transmission_window.second
        IN /\ e.next_execution = next
           /\ e.eligible <=> (next <= e.now /\ e.last_datetime[1] < next)

\* C19 (amended): for a device with a prior execution next_execution is the
\* current date and the current hour at the minute and second of
\* first_transmission_time, plus the minutes and seconds of
\* transmission_window; the device is eligible exactly when
\* next_execution <= now and last_datetime < next_execution.
C19_CurrentHourAtFirstTransmission ==
    (dcp_event.op = "check" /\ dcp_event.last_datetime # None) =>
        LET e == dcp_event
            next == (e.now - (e.now % Hour))
                      + e.first_transmission_time.minute * 60
                      + e.first_transmission_time.second
                      + e.transmission_window.minute * 60
                      + e.transmission_window.second
        IN /\ e.next_execution = next
           /\ e.eligible <=> (next <= e.now /\ e.last_datetime[1] < next)

\* a device with a prior execution is found eligible in an hour that is not
\* the hour of its first_transmission_time
C19_Witness ==
    /\ dcp_event.op = "check"
    /\ dcp_event.last_datetime # None
    /\ dcp_event.eligible
    /\ HourOf(dcp_event.now) # dcp_event.first_transmission_time.hour
    /\ dcp_event.transmission_window.hour # 0

\* hours since the last execution, whole hours
HoursSince(e) == (e.now - e.last_execution[1]) \div Hour

\* clamp(h, min=lo, max=hi) as max(lo, min(h, hi))
Clamp(h, lo, hi) ==
    LET capped == IF h <= hi THEN h ELSE hi
    IN IF capped >= lo THEN capped ELSE lo

\* C20 (as stated): the query window written by set_search_criteria is
\* clamp(hours since last execution, min=3, max=LRGS_MAX_INTERVAL), and 3 hours
\* for a device with no prior execution.
C20_NullUsesMinimum ==
    (dcp_event.op = "retrieve" /\ dcp_event.written) =>
        cs_file[1].drs_since =
            IF dcp_event.last_execution = None THEN 3
            ELSE Clamp(HoursSince(dcp_event), 3, dcp_event.max_interval)

\* C20 (amended): the query window written by set_search_criteria is
\* clamp(whole hours since last execution, min=3, max=LRGS_MAX_INTERVAL), and
\* for a device with no prior execution it is LRGS_MAX_INTERVAL (3 if
\* LRGS_MAX_INTERVAL is below 3).
C20_NullUsesMaximum ==
    (dcp_event.op = "retrieve" /\ dcp_event.written) =>
        /\ cs_file[1].dcp_address = dcp_event.id
        /\ cs_file[1].drs_since =
            IF dcp_event.last_execution = None
            THEN (IF dcp_event.max_interval >= 3 THEN dcp_event.max_interval ELSE 3)
            ELSE Clamp(HoursSince(dcp_event), 3, dcp_event.max_interval)

\* a never-executed device gets a window above 3 hours
C20_Witness ==
    /\ dcp_event.op = "retrieve"
    /\ dcp_event.written
    /\ dcp_event.last_execution = None
    /\ cs_file[1].drs_since > 3


\* C21: retrieve_dpc_messages for a device related to zero or to more than
\* one station raises a descriptive error, leaves the criteria file alone and
\* spawns no subprocess, and the run goes on with the devices still in
\* noaa_list_to_process; a run only ends when that list is empty.
C21_StationCountFailsFast ==
    [][/\ (dcp_event'.op = "retrieve" /\ dcp_event'.related_stations_count # 1) =>
            LET w == dcp_event'.w
            IN /\ dcp_event'.error # None
               /\ cs_file' = cs_file
               /\ ~dcp_event'.spawned
               /\ sched'[w].pc = "dispatch"
               /\ sched'[w].noaa_list_to_process = Tail(sched[w].noaa_list_to_process)
       /\ dcp_event'.op = "finish" =>
            sched[dcp_event'.w].noaa_list_to_process = <<>>]_vars

\* a dispatch failed on the station count while another eligible device of
\* the same run is still to be dispatched
C21_Witness ==
    /\ dcp_event.op = "retrieve"
    /\ dcp_event.related_stations_count # 1
    /\ dcp_event.error # None
    /\ sched[dcp_event.w].pc = "dispatch"
    /\ sched[dcp_event.w].noaa_list_to_process # <<>>


\* C22: in get_entl_data the delay between the end of a connection attempt
\* and the next connect is 3 seconds after an I/O error or a clean close of
\* the peer, and 15 seconds after a failed connect.
C22_BackoffDelays ==
    entl_event.op = "connect" =>
        /\ entl_event.ended_by \in {"io_error", "timeout", "decoding_error", "clean_close"}
              => entl_event.delay = 3
        /\ entl_event.ended_by = "connect_failed" => entl_event.delay = 15

\* C23: get_entl_data never terminates on its own, and after a connect
\* failure, a send failure, a read timeout, an I/O error, a frame decoding
\* error or a clean close it eventually makes a new connection attempt.
C23_AlwaysReconnects ==
    /\ [](entl.pc # "terminated")
    /\ (entl.pc \in {"sleep3", "sleep15"}) ~> (entl_event.op = "connect")

\* a new connection attempt after a frame decoding error
C23_Witness ==
    /\ entl_event.op = "connect"
    /\ entl_event.ended_by = "decoding_error"

\* C24: a frame whose type byte is the keep-alive mark is never decoded as a
\* data frame and never forwarded to save_flash_data, and every forwarded
\* frame has its latitude in [15, 19] and its longitude in [-90, -87].
C24_KeepAliveNeverForwarded ==
    /\ (entl_event.op = "frame" /\ entl_event.data.type = Ord9) =>
          (~entl_event.decoded /\ ~entl_event.forward)
    /\ \A data \in forwarded :
          /\ data.type # Ord9
          /\ InBox(data)


\* the chunks of the last call that fetched the stored row r
FetchedBy(r) ==
    {i \in 1..Len(export_call.results) :
        [datetime |-> r.datetime, variable_id |-> r.variable_id, value |-> TRUE]
            \in export_call.results[i]}

\* the stored rows in [start, end) of the last call
InExportRange ==
    {r \in export_table : /\ r.datetime >= export_call.start_date
                          /\ r.datetime < export_call.end_date}

\* datetime_list splits [start, end) into consecutive chunks of at most a day
ChunksSplitRange ==
    LET d == export_call.datetime_list
    IN /\ d[1] = export_call.start_date
       /\ d[Len(d)] = export_call.end_date
       /\ \A i \in 1..(Len(d) - 1) :
             /\ d[i + 1] - d[i] <= Day
             /\ export_call.start_date < export_call.end_date => d[i] < d[i + 1]

C28_ReadyOrZeroLines ==
    export_call.op = "export" =>
        IF export_call.failure = "none"
        THEN datafile.ready /\ datafile.lines = <<export_call.pivoted>>
        ELSE ~datafile.ready /\ datafile.lines = <<0>>


\* C25: a permission or protocol error raised while changing folder, listing,
\* downloading or deleting never aborts the run of ftp_ingest_station_files.
C25_FtpErrorsContained ==
    (/\ ftp_event.op \in {"cwd", "nlst", "retr", "file"}
     /\ ftp_event.outcome \in FtpErrors) => ftp.pc # "aborted"

\* C26: every StationDataFile a profile enqueues comes from that profile's
\* own remote folder, and after a permission error on the change of folder
\* nothing is listed for the profile.
C26_OwnFolderOnly ==
    /\ \A e \in enqueued : e.folder = station_file_ingestions[e.sfi].remote_folder
    /\ ftp_event.op = "nlst" => ftp_event.cwd_outcome = "ok"


\* C29: a call of predict_data whose answer holds a code without entry in
\* result_mapping, whose answer is not 200, or whose input window is empty
\* changes no ml_flag, and after a call that raised
\* predict_preciptation_data goes on with the remaining tasks.
C29_UnmappedAbortsBatch ==
    [][predict_event'.op = "predict_data" =>
          LET e == predict_event'
              unmapped == \E k \in 1..Len(e.response) :
                             e.response[k].prediction \notin {"0", "1"}
          IN /\ (unmapped \/ e.status_code # 200 \/ e.no_rows) => ml_flag' = ml_flag
             /\ predict'.pc = "loop"
             /\ predict'.i = predict.i + 1]_vars

\* the first task got an answer whose first record is mapped and whose second
\* is not, and the second task is still to run
C29_Witness ==
    /\ predict_event.op = "predict_data"
    /\ predict_event.outcome = "unmapped"
    /\ Len(predict_event.response) = 2
    /\ predict_event.response[1].prediction = "0"
    /\ predict_event.response[2].prediction = "7"
    /\ predict.pc = "loop"
    /\ predict.i = 2


\* C30: one run of process_hourly_summary_tasks or of
\* process_daily_summary_tasks claims and computes at most 500 summary
\* windows, however many unprocessed tasks exist.
C30_AtMost500Windows ==
    /\ summary_run.batch <= 500
    /\ summary_run.computed <= 500
    /\ task_event.op = "finish" => task_event.computed <= 500

\* C31: when a run of process_station_data_files has returned or aborted,
\* none of the jobs it claimed is left IN_PROGRESS: each is DONE, ERROR or
\* SKIPPED.
C31_NoneLeftInProgress ==
    \A w \in Workers :
        run[w].pc \in {"done", "aborted"} =>
            \A k \in 1..Len(run[w].list) :
                sdf[run[w].list[k].id].status_id \in {DONE, ERROR, SKIPPED}

\* the two orders of the evaluators over the same store
StepThenPersist(tbl) == calculate_persist_qc_test(calculate_step_qc_test(tbl).tbl)
PersistThenStep(tbl) == calculate_step_qc_test(calculate_persist_qc_test(tbl)).tbl

\* the reading has a threshold, a step over it and a SUSPICIOUS persistence flag
StepRuleFires(tbl, rd) ==
    /\ StepThresholdOf(rd) # None
    /\ StepOver(tbl, rd, StepThresholdOf(rd)[1])
    /\ rd.qc_persist_quality_flag = QC_SUSPICIOUS

\* the store on which the order matters: the step test has something to
\* write, no reading meets the hard-fail rule yet, and one does once
\* calculate_persist_qc_test has run
OrderMatters(tbl) ==
    /\ \E rd \in tbl : StepThresholdOf(rd) # None /\ rd.qc_step_quality_flag = QC_NEUTRAL
    /\ \A rd \in tbl : ~StepRuleFires(tbl, rd)
    /\ \E rd \in calculate_persist_qc_test(tbl) :
           StepRuleFires(calculate_persist_qc_test(tbl), rd)

\* C32: the evaluators do not commute: on a store where
\* calculate_persist_qc_test turns SUSPICIOUS a reading whose step exceeds
\* test_step_value, running persist then step ends with a different step flag
\* or quality_flag on some reading than running step then persist.
C32_OrdersDiffer ==
    OrderMatters(raw_qc) =>
        \E rd \in StepThenPersist(raw_qc) :
            \/ SameRow(PersistThenStep(raw_qc), rd).qc_step_quality_flag
                   # rd.qc_step_quality_flag
            \/ SameRow(PersistThenStep(raw_qc), rd).quality_flag # rd.quality_flag

C32_Witness ==
    /\ OrderMatters(raw_qc)
    /\ qc_call.op = "insert"
    /\ Cardinality(raw_qc) = 3

RowsCounting(tbl, rd) == {row \in tbl : rd \in row.readings}

\* C34: after calculate_daily_summary has run for day 1 and then for day 2,
\* one day per call as process_daily_summary_tasks calls it, every accepted
\* non-missing reading of a selected station in the two local days is
\* counted in exactly one row of daily_summary, the readings at exactly local
\* midnight included.
C34_CountedOncePerDay ==
    (/\ last_call.op = "daily" /\ last_call.ok
     /\ last_call.start = 1 /\ last_call.end = 2) =>
        \A order \in Orders(Offsets(last_call.station_ids)) :
            LET next == calculate_daily_summary(daily_summary, 2, 3,
                                                last_call.station_ids, order)
            IN next.ok =>
                   \A rd \in raw_data :
                       (/\ Good(rd)
                        /\ rd.station_id \in last_call.station_ids
                        /\ rd.datetime > LocalMidnight(1, stations[rd.station_id])
                        /\ rd.datetime <= LocalMidnight(3, stations[rd.station_id]))
                       => Cardinality(RowsCounting(next.tbl, rd)) = 1

\* C35: with dcp_tasks_scheduler run every minute, a device that has been
\* dispatched is found eligible again, whatever its first_transmission_time
\* and transmission_window: it never goes two hours of runs without a
\* dispatch.
C35_EligibleAgain ==
    (minutely.pc = "tick" /\ minutely.noaaDcp[1].last_datetime # None) =>
        minutely.now - minutely.noaaDcp[1].last_datetime[1] < 2 * Hour

\* a document whose decoder would succeed is still unprocessed
GoodDocumentWaiting ==
    \E id \in 1..Len(documents) :
        documents[id].kind = "good" /\ ~documents[id].processed

\* C36: under repeated runs of process_document every unprocessed document
\* whose decoder would succeed is eventually decoded and marked processed,
\* also behind 60 or more documents with smaller ids that fail on every
\* attempt or name an unknown decoder: again and again no such document is
\* left waiting.
C36_GoodDocumentsProcessed == []<>(~GoodDocumentWaiting)

\* a task has started_at set and finished_at null
TaskLeftStarted ==
    \E id \in 1..Len(task_rows) :
        task_rows[id].started_at /\ ~task_rows[id].finished_at

\* C37: a summary task whose computation raised is retried by a later run:
\* no task stays for ever with started_at set and finished_at null; again
\* and again every started task is finished.
C37_FailedTasksRetried == []<>(~TaskLeftStarted)

\* C38: a task is marked finished only if a summary computation of its window
\* began after the task was created; a task inserted while its window is
\* being computed is not marked started or finished by that run.
C38_FinishedOnlyIfCovered ==
    \A id \in 1..Len(task_rows) :
        /\ task_rows[id].finished_at => task_rows[id].covered
        /\ task_rows[id].started_at => task_rows[id].covered

\* a task was inserted while the run was computing its window, the run has
\* finished the window's earlier task, and the new task is untouched
C38_Witness ==
    /\ task_run.pc = "loop"
    /\ \E a, b \in 1..Len(task_rows) :
           /\ a < b
           /\ task_rows[a].datetime = task_rows[b].datetime
           /\ task_rows[a].finished_at
           /\ ~task_rows[b].covered
           /\ ~task_rows[b].started_at
           /\ ~task_rows[b].finished_at

\* C39: the retrieval subprocess started for a device reads the search
\* criteria written for that same device, also with two dispatches in
\* flight: what it read is what its own dispatch wrote.
C39_ReadsOwnCriteria ==
    \A w \in Workers :
        retrieve[w].pc = "decode" =>
            retrieve[w].read =
                <<search_criteria(retrieve[w].dcp_address, retrieve[w].last_execution)>>

\* the jobs with the file_hash h
JobsWithHash(h) == {j \in JobIds : sdf[j].file_hash = h}

\* C40: deduplication never loses content: for any interleaving of concurrent
\* runs over jobs sharing one file_hash, it never happens that every job
\* with that hash has ended SKIPPED without any of them having been passed
\* to a decoder.
C40_NotAllSkippedUndecoded ==
    \A h \in FileHashes :
        (/\ JobsWithHash(h) # {}
         /\ \A j \in JobsWithHash(h) : sdf[j].status_id = SKIPPED)
        => \E j \in JobsWithHash(h) : decoded[j]

====
